---- MODULE Spec2Model ----
(***************************************************************************)
(* Generation-and-versioning engine of stryklabs-platform-v3.              *)
(*                                                                         *)
(* State: the tables coaching_versions, client_active_plans,               *)
(* session_stats, coaching_summary and session_coaching, plus one slot per *)
(* request in flight.  Every request handler is a sequence of steps of one *)
(* request slot: a Start step (authorisation, reads, cache decision,       *)
(* collaborator call, validation, read of the current maximum index), an   *)
(* Insert step (the insert into coaching_versions and everything the       *)
(* handler does after it) and, for the plan3m recompute, a separate        *)
(* pointer step.  With one slot the handlers run one after the other; with *)
(* two slots their steps interleave.                                       *)
(***************************************************************************)
EXTENDS Integers, FiniteSets, Sequences, TLC

\* ---------------------------------------------------------------- bounds
MaxVersions == 3
MaxStat == 2
MaxClock == 1
MaxAttempts == 2

\* ------------------------------------------------------------- universe
Clients == {"c1"}
\* the clients that can have a client_active_plans row: c2 has no session
PtrClients == Clients \cup {"c2"}
Sessions == {"s1"}
SessionClient == [s \in Sessions |-> "c1"]
SessionsOf(c) == {s \in Sessions : SessionClient[s] = c}

NIL_UUID == "nil"
PLAN3M_ANCHOR_SESSION_ID == NIL_UUID
PLAN3M_SCHEMA_VERSION == "plan3m_v1.1"

NoId == 0
NoIndex == 0
MissingId == MaxVersions + 1
NoTheme == "none"

THEME_ENUM == {"t1", "t2", "t3"}
PlanThemes == {"t1", "t2"}

Procs == {"p1", "p2"}

\* ------------------------------------------------------------ variables
VARIABLES
    versions,         \* coaching_versions: set of rows
    ptr,              \* client_active_plans: client -> [row, p3, p6]
    stats,            \* session_stats: session -> data_hash (0 = no row)
    summary,          \* coaching_summary: session -> data_hash (NoHash = no row)
    scoaching,        \* session_coaching: session -> row
    pc,               \* request slot -> position in its handler
    loc,              \* request slot -> locals of the running handler
    resp,             \* request slot -> last response and telemetry row
    fresh,            \* (flow, session/client) with a successful non-forced
                      \* call and no upstream change since
    sessions,         \* sessions: session -> coaching_status, coaching_attempts
    result,           \* RunResult of the last run of the session-coaching runner
    calc              \* arguments and values of the pure functions under study

vars == <<versions, ptr, stats, summary, scoaching, pc, loc, resp, fresh,
          sessions, result, calc>>

\* what the request handlers never write
aside == <<sessions, result, calc>>
tables == <<versions, ptr, stats, summary, scoaching, pc, loc, resp, fresh>>

\* ----------------------------------------------------------------- hash
\* A digest is modelled by the tuple of the inputs it is computed over
\* (equal inputs give equal digests, different inputs different digests).
Hash(kind, c, s, x, y) == <<kind, c, s, x, y>>

StatsHash(s) == Hash("stats", SessionClient[s], s, stats[s], 0)

\* ------------------------------------------------------------ row shape
Row(id, c, s, idx, h, schema, reason, by, themes, refs, plan, display) ==
    [id |-> id, client_id |-> c, session_id |-> s, version_index |-> idx,
     data_hash |-> h, schema |-> schema, reason |-> reason,
     generated_by |-> by, themes |-> themes, refs |-> refs, plan |-> plan,
     display |-> display]

NoRow == Row(NoId, "", "", NoIndex, Hash("", "", "", 0, 0), "", "", "", {}, {}, NoId, "")

SeedPlan ==
    Row(1, "c1", NIL_UUID, 1, Hash("seed", "c1", NIL_UUID, 0, 0),
        PLAN3M_SCHEMA_VERSION, "initial", "system", PlanThemes, {}, NoId, "seed")

Ids == {r.id : r \in versions}
RowById(id) == CHOOSE r \in versions : r.id = id
Thread(c, s) == {r \in versions : r.client_id = c /\ r.session_id = s}

SetMax(S) == CHOOSE x \in S : \A y \in S : y <= x

\* order("version_index", desc).limit(1): Postgres puts NULL first in a
\* descending order, so a row without an index is returned before any
\* numbered row.
LatestRows(rs) ==
    IF \E r \in rs : r.version_index = NoIndex
    THEN {r \in rs : r.version_index = NoIndex}
    ELSE {r \in rs : \A q \in rs : q.version_index <= r.version_index}

\* (typeof version_index === "number" ? version_index : 0) + 1
NextIndexOf(rs) ==
    IF rs = {} \/ (\E r \in rs : r.version_index = NoIndex)
    THEN 1
    ELSE SetMax({r.version_index : r \in rs}) + 1

\* ---------------------------------------------------------- responses
\* The response of a call, with the coaching_telemetry row it wrote (tel)
\* and what the call did to coaching_versions (inserted).
Resp(handler, c, s, force, wasFresh) ==
    [handler |-> handler, c |-> c, s |-> s, force |-> force,
     fresh |-> wasFresh, match |-> FALSE, status |-> 0, cached |-> FALSE,
     generated_by |-> "",
     id |-> NoId, inserted |-> FALSE, err |-> "", tel |-> "", ai |-> ""]

NoResp == Resp("", "", "", FALSE, FALSE)

Loc(handler, row, force, wasFresh, match, prev, ai) ==
    [handler |-> handler, row |-> row, force |-> force, fresh |-> wasFresh,
     match |-> match, prev |-> prev, ai |-> ai]

NoLoc == Loc("", NoRow, FALSE, FALSE, FALSE, NoId, "")

NoHash == Hash("", "", "", 0, 0)

\* session_coaching of one session: the row an upsert on session_id addresses
\* (status "" = no row), the number of rows and of rows with is_published.
NoCoaching == [prompt_hash |-> Hash("", "", "", 0, 0), status |-> "",
               has_output |-> FALSE, is_published |-> FALSE,
               rows |-> 0, published |-> 0]

\* upsert(..., {onConflict: "session_id"}) of a row with the given prompt_hash
\* and is_published = true: the addressed row is inserted or overwritten.
UpsertPublished(old, prompt_hash) ==
    [prompt_hash |-> prompt_hash, status |-> "ready", has_output |-> TRUE,
     is_published |-> TRUE,
     rows |-> IF old.rows = 0 THEN 1 ELSE old.rows,
     published |-> IF old.is_published THEN old.published ELSE old.published + 1]

\* a sessions row the runner has not touched yet
NoSession == [coaching_status |-> "null", coaching_attempts |-> 0]

\* no run of the runner has returned
NoResult == [session_id |-> "", ok |-> FALSE, status |-> "", cached |-> FALSE,
             error |-> "", called |-> FALSE, run |-> 0]

\* no pure function under study
NoCalc == [fn |-> ""]

\* Rows being written by requests that are between Start and Insert.
InFlight == Cardinality({p \in Procs : pc[p] = "insert"})
Room == Cardinality(versions) + InFlight < MaxVersions

\* ----------------------------------------------------------------- Init
Init ==
    /\ versions \in {{}, {SeedPlan}}
    /\ ptr = [c \in PtrClients |-> [row |-> FALSE, p3 |-> NoId, p6 |-> NoId]]
    /\ stats = [s \in Sessions |-> 0]
    /\ summary = [s \in Sessions |-> NoHash]
    /\ scoaching = [s \in Sessions |-> NoCoaching]
    /\ pc = [p \in Procs |-> "idle"]
    /\ loc = [p \in Procs |-> NoLoc]
    /\ resp = [p \in Procs |-> NoResp]
    /\ fresh = {}
    /\ sessions = [s \in Sessions |-> NoSession]
    /\ result = NoResult
    /\ calc = NoCalc

\* ------------------------------------------------------ shared helpers
NewId == SetMax(Ids \cup {0}) + 1

\* Unique (client_id, session_id, version_index) of the version store; rows
\* without an index never conflict (NULLs are distinct).
InsertConflict(row) ==
    /\ row.version_index # NoIndex
    /\ \E r \in versions :
          /\ r.client_id = row.client_id
          /\ r.session_id = row.session_id
          /\ r.version_index = row.version_index

\* Slot p stands at `where`, and no response is waiting to be delivered.
At(p, where) == pc[p] = where /\ \A q \in Procs : pc[q] # "done"

\* An upsert on (client_id, session_id) in place of the insert: the new row
\* takes the place of the rows of its thread.
UpsertVersion(row) ==
    {r \in versions : r.client_id # row.client_id \/ r.session_id # row.session_id} \cup {row}

\* .from("coaching_versions").insert(row): the table after the insert
InsertVersion(row) == versions \cup {row}

Finish(p, r) ==
    /\ pc' = [pc EXCEPT ![p] = "done"]
    /\ loc' = [loc EXCEPT ![p] = NoLoc]
    /\ resp' = [resp EXCEPT ![p] = r]
    /\ UNCHANGED aside

ToInsert(p, l) ==
    /\ Room
    /\ pc' = [pc EXCEPT ![p] = "insert"]
    /\ loc' = [loc EXCEPT ![p] = l]
    /\ UNCHANGED <<resp, aside>>

\* A successful non-forced call of a flow that takes a force flag.
FreshAfter(flow, c, s, force) ==
    IF force THEN fresh ELSE fresh \cup {<<flow, c, s>>}

\* Upstream facts of client c changed.
FreshDrop(c) == {e \in fresh : e[2] # c}

\* Outcome of one request to the external collaborator.
Ai(kind, fields_ok, status_ok, primary, secondary, evidence, themes, metrics) ==
    [kind |-> kind, fields_ok |-> fields_ok, status_ok |-> status_ok,
     primary |-> primary, secondary |-> secondary, evidence |-> evidence,
     themes |-> themes, metrics |-> metrics]

AiFail(kind) == Ai(kind, FALSE, FALSE, NoTheme, NoTheme, {}, {}, {})
AiFailures == {AiFail("disabled"), AiFail("error")}
\* the collaborator never answers the request
AiHang == AiFail("hang")

\* A telemetry insert outside any try/catch: its failure reaches the
\* handler's catch and the call answers 500.
rawTelemetry(r, telOk) ==
    IF telOk THEN r ELSE [r EXCEPT !.tel = "", !.status = 500, !.err = "telemetry_failed"]

\* telemetry insert wrapped in try/catch: a failed insert leaves no row and
\* changes nothing else of the response
safeTelemetry(r, telOk) == IF telOk THEN r ELSE [r EXCEPT !.tel = ""]

\* The handler awaits a collaborator request that carries no timeout of its
\* own (no AbortSignal, no timeout option).
Wait(p, handler, c, s, force, wasFresh, match) ==
    /\ pc' = [pc EXCEPT ![p] = "waiting"]
    /\ loc' = [loc EXCEPT ![p] =
          Loc(handler, [NoRow EXCEPT !.client_id = c, !.session_id = s],
              force, wasFresh, match, NoId, "hang")]
    /\ UNCHANGED <<resp, aside>>

\* The response reaches the caller and the slot is free again.
Return(p) ==
    /\ pc[p] = "done"
    /\ pc' = [pc EXCEPT ![p] = "idle"]
    /\ resp' = [resp EXCEPT ![p] = NoResp]
    /\ UNCHANGED <<versions, ptr, stats, summary, scoaching, loc, fresh, aside>>

\* ------------------------------------------------- session_stats upsert
\* upload route: upsert of the snapshot row of a session.
StatsUpsert(p, s, h) ==
    /\ At(p, "idle")
    /\ h # stats[s]
    /\ stats' = [stats EXCEPT ![s] = h]
    /\ fresh' = FreshDrop(SessionClient[s])
    /\ Finish(p, [Resp("upload", SessionClient[s], s, FALSE, FALSE) EXCEPT !.status = 200])
    /\ UNCHANGED <<versions, ptr, summary, scoaching>>

\* ------------------------------------------------- plan3m activation
\* The upsert made before the admin check: a caller who is no admin gets 403
\* after the pointer has been written.
ActivatePlan3mUnchecked(p, c, admin, versionId) ==
    LET r0 == Resp("activate", c, NIL_UUID, FALSE, FALSE) IN
    /\ At(p, "idle")
    /\ ptr' = [ptr EXCEPT ![c] = [@ EXCEPT !.row = TRUE, !.p3 = versionId]]
    /\ fresh' = IF ptr[c].p3 = versionId THEN fresh ELSE FreshDrop(c)
    /\ Finish(p, IF admin THEN [r0 EXCEPT !.status = 200, !.id = versionId]
                 ELSE [r0 EXCEPT !.status = 403, !.err = "Forbidden"])
    /\ UNCHANGED <<versions, stats, summary, scoaching>>

\* The upsert writing the whole row in place of the two columns it names:
\* active_plan6m_id of the client is reset.
ActivatePlan3mWholeRow(p, c, admin, versionId) ==
    LET r0 == Resp("activate", c, NIL_UUID, FALSE, FALSE) IN
    /\ At(p, "idle")
    /\ IF ~admin THEN
          /\ Finish(p, [r0 EXCEPT !.status = 403, !.err = "Forbidden"])
          /\ UNCHANGED <<versions, ptr, stats, summary, scoaching, fresh>>
       ELSE
          /\ ptr' = [ptr EXCEPT ![c] = [row |-> TRUE, p3 |-> versionId, p6 |-> NoId]]
          /\ fresh' = IF ptr[c].p3 = versionId THEN fresh ELSE FreshDrop(c)
          /\ Finish(p, [r0 EXCEPT !.status = 200, !.id = versionId])
          /\ UNCHANGED <<versions, stats, summary, scoaching>>

\* POST /api/admin/coaching/plan3m/activate
ActivatePlan3m(p, c, admin, versionId) ==
    LET r0 == Resp("activate", c, NIL_UUID, FALSE, FALSE) IN
    /\ At(p, "idle")
    /\ IF ~admin THEN
          /\ Finish(p, [r0 EXCEPT !.status = 403, !.err = "Forbidden"])
          /\ UNCHANGED <<versions, ptr, stats, summary, scoaching, fresh>>
       ELSE
          /\ ptr' = [ptr EXCEPT ![c] = [@ EXCEPT !.row = TRUE, !.p3 = versionId]]
          /\ fresh' = IF ptr[c].p3 = versionId THEN fresh ELSE FreshDrop(c)
          /\ Finish(p, [r0 EXCEPT !.status = 200, !.id = versionId])
          /\ UNCHANGED <<versions, stats, summary, scoaching>>

\* ------------------------------------------------- plan6m regen
ALLOWED_METRIC_IDS == {"m_ok"}

Plan6mCandidates ==
    { Ai("json", TRUE, TRUE, NoTheme, NoTheme, {}, {"t1"}, {"m_ok", "m_bad"}),
      Ai("json", TRUE, TRUE, NoTheme, NoTheme, {}, {"t1"}, {"m_bad"}),
      Ai("json", TRUE, TRUE, NoTheme, NoTheme, {}, {"bogus"}, {"m_ok"}) }

\* progress_metrics filtered to the allowed metric ids before validation
FilterMetrics(ai) == [ai EXCEPT !.metrics = @ \cap ALLOWED_METRIC_IDS]

\* ajvValidateOrThrow(PLAN6M_V1_SCHEMA) and the theme guard
Plan6mValid(ai) ==
    /\ ai.fields_ok
    /\ ai.themes # {}
    /\ ai.themes \subseteq THEME_ENUM
    /\ ai.metrics # {}

\* weight of a session in the snapshot list of its client
SnapCode(c) == IF SessionsOf(c) = {} THEN 0 ELSE stats[CHOOSE s \in SessionsOf(c) : TRUE]

Plan6mHash(c) == Hash("plan6m", c, NIL_UUID, SnapCode(c), 0)

Regen6mResp(c, force) == Resp("plan6m_regen", c, NIL_UUID, force, <<"plan6m_regen", c, NIL_UUID>> \in fresh)

handleAdminPlan6mRegen(p, c, auth, force, ai, telOk) ==
    LET active == ptr[c].p6
        snaps == {s \in SessionsOf(c) : stats[s] # 0}
        h == Plan6mHash(c)
        activeRows == {r \in Thread(c, NIL_UUID) : r.id = active}
        sameHash == {r \in Thread(c, NIL_UUID) : r.data_hash = h}
        match == (\E r \in activeRows : r.data_hash = h) \/ sameHash # {}
        r0 == [Regen6mResp(c, force) EXCEPT !.match = match]
        cand == FilterMetrics(ai)
    IN
    /\ At(p, "idle")
    /\ IF ~auth THEN
          /\ Finish(p, [r0 EXCEPT !.status = 401, !.err = "unauthorized"])
          /\ UNCHANGED <<versions, ptr, stats, summary, scoaching, fresh>>
       ELSE IF ai.kind = "disabled" THEN
          /\ Finish(p, [r0 EXCEPT !.status = 500, !.err = "Missing OPENAI_API_KEY", !.ai = ai.kind])
          /\ UNCHANGED <<versions, ptr, stats, summary, scoaching, fresh>>
       ELSE IF snaps = {} THEN
          /\ Finish(p, [r0 EXCEPT !.status = 409, !.err = "no_session_stats"])
          /\ UNCHANGED <<versions, ptr, stats, summary, scoaching, fresh>>
       ELSE IF ~force /\ active # NoId /\ (\E r \in activeRows : r.data_hash = h) THEN
          /\ Finish(p, safeTelemetry([r0 EXCEPT !.status = 200, !.cached = TRUE,
                                         !.id = active, !.tel = "ok:noop_hit"], telOk))
          /\ fresh' = FreshAfter("plan6m_regen", c, NIL_UUID, force)
          /\ UNCHANGED <<versions, ptr, stats, summary, scoaching>>
       ELSE IF ~force /\ sameHash # {} THEN
          \E ex \in LatestRows(sameHash) :
             /\ ptr' = [ptr EXCEPT ![c] = [@ EXCEPT !.row = TRUE, !.p6 = ex.id]]
             /\ Finish(p, safeTelemetry([r0 EXCEPT !.status = 200, !.cached = TRUE,
                                            !.id = ex.id, !.tel = "ok:hit"], telOk))
             /\ fresh' = FreshAfter("plan6m_regen", c, NIL_UUID, force)
             /\ UNCHANGED <<versions, stats, summary, scoaching>>
       ELSE IF ai.kind = "hang" THEN
          /\ Wait(p, "plan6m_regen", c, NIL_UUID, force, r0.fresh, match)
          /\ UNCHANGED <<versions, ptr, stats, summary, scoaching, fresh>>
       ELSE IF ai.kind # "json" THEN
          /\ Finish(p, safeTelemetry([r0 EXCEPT !.status = 500, !.err = ai.kind,
                                         !.tel = "error:collaborator", !.ai = ai.kind], telOk))
          /\ UNCHANGED <<versions, ptr, stats, summary, scoaching, fresh>>
       ELSE IF ~Plan6mValid(cand) THEN
          /\ Finish(p, safeTelemetry([r0 EXCEPT !.status = 500, !.err = "schema_validation",
                                         !.tel = "error:schema_validation",
                                         !.ai = "rejected"], telOk))
          /\ UNCHANGED <<versions, ptr, stats, summary, scoaching, fresh>>
       ELSE
          /\ ToInsert(p, Loc("plan6m_regen",
                Row(NoId, c, NIL_UUID, NextIndexOf(Thread(c, NIL_UUID)), h, "plan6m_v1",
                    IF active # NoId THEN "data_change" ELSE "initial",
                    "admin_plan6m_regen", cand.themes, {}, NoId,
                    IF cand = ai THEN "ai" ELSE "ai_coerced"),
                force, r0.fresh, match, active, "accepted"))
          /\ UNCHANGED <<versions, ptr, stats, summary, scoaching, fresh>>

Regen6mInsert(p, telOk) ==
    LET l == loc[p]
        row == [l.row EXCEPT !.id = NewId]
        r0 == [Resp("plan6m_regen", row.client_id, NIL_UUID, l.force, l.fresh)
                 EXCEPT !.ai = l.ai, !.match = l.match]
    IN
    /\ At(p, "insert")
    /\ l.handler = "plan6m_regen"
    /\ IF InsertConflict(row) THEN
          /\ Finish(p, safeTelemetry([r0 EXCEPT !.status = 500, !.err = "insert_failed",
                                         !.tel = "error:insert_failed"], telOk))
          /\ UNCHANGED <<versions, ptr, stats, summary, scoaching, fresh>>
       ELSE
          /\ versions' = InsertVersion(row)
          /\ Finish(p, safeTelemetry([r0 EXCEPT !.status = 200, !.id = row.id,
                                         !.inserted = TRUE,
                                         !.generated_by = row.generated_by,
                                         !.tel = "ok:miss"], telOk))
          /\ fresh' = FreshAfter("plan6m_regen", row.client_id, NIL_UUID, l.force)
          /\ UNCHANGED <<ptr, stats, summary, scoaching>>

\* ------------------------------------------------- plan3m recompute
Plan3mCandidates ==
    { Ai("json", TRUE, TRUE, NoTheme, NoTheme, {}, {}, {}),
      Ai("json", FALSE, TRUE, NoTheme, NoTheme, {}, {}, {}) }

\* body.reason as the callers of this deployment send it: absent
ReasonsIn == {""}

\* normalizeDisplay(content_json.display) of a stored row
HasPlanDisplay(r) == r.schema = PLAN3M_SCHEMA_VERSION /\ r.display \in {"baseline", "ai"}

\* new Date().toISOString(): never earlier than a time already stored
LastClock ==
    SetMax({0} \cup {r.data_hash[4] : r \in {q \in versions : q.data_hash[1] = "plan3m"}})

Plan3mHash(c, now, prev, reason) ==
    Hash("plan3m", c, reason, now, prev * (MaxStat + 1) + SnapCode(c))

handlePlan3mRecompute(p, c, auth, reasonIn, now, ai) ==
    LET r0 == Resp("plan3m_recompute", c, NIL_UUID, FALSE, FALSE)
        reason == IF reasonIn = "" THEN "session_upload" ELSE reasonIn
        prevPlanId == ptr[c].p3
        prevRows == {r \in versions : r.id = prevPlanId}
        prevPlanIdValid == prevPlanId # NoId /\ prevRows # {}
        prev == IF prevPlanIdValid THEN prevPlanId ELSE NoId
        prevDisplay == IF prevPlanIdValid /\ HasPlanDisplay(RowById(prevPlanId))
                       THEN RowById(prevPlanId).display ELSE ""
        latestPlan == {r \in Thread(c, PLAN3M_ANCHOR_SESSION_ID) : r.schema = PLAN3M_SCHEMA_VERSION}
        aiOk == ai.kind = "json" /\ ai.fields_ok
        display == IF aiOk THEN "ai" ELSE IF prevDisplay # "" THEN prevDisplay ELSE "baseline"
        generatedBy == IF aiOk THEN "openai" ELSE "system"
    IN
    /\ At(p, "idle")
    /\ now >= LastClock
    /\ IF ~auth THEN
          /\ Finish(p, [r0 EXCEPT !.status = 401, !.err = "Unauthorized"])
          /\ UNCHANGED <<versions, ptr, stats, summary, scoaching, fresh>>
       ELSE IF ~ptr[c].row THEN
          /\ Finish(p, [r0 EXCEPT !.status = 500, !.err = "failed to read client_active_plans"])
          /\ UNCHANGED <<versions, ptr, stats, summary, scoaching, fresh>>
       ELSE IF ai.kind = "error" THEN
          /\ Finish(p, [r0 EXCEPT !.status = 500, !.err = "Unhandled error", !.ai = ai.kind])
          /\ UNCHANGED <<versions, ptr, stats, summary, scoaching, fresh>>
       ELSE IF ai.kind = "hang" THEN
          /\ Wait(p, "plan3m_recompute", c, NIL_UUID, FALSE, FALSE, FALSE)
          /\ UNCHANGED <<versions, ptr, stats, summary, scoaching, fresh>>
       ELSE
          /\ ToInsert(p, Loc("plan3m_recompute",
                Row(NoId, c, PLAN3M_ANCHOR_SESSION_ID, NextIndexOf(latestPlan),
                    Plan3mHash(c, now, prev, reason), PLAN3M_SCHEMA_VERSION,
                    reason, generatedBy, {}, {}, prev, display),
                FALSE, FALSE, FALSE, prev,
                IF aiOk THEN "accepted" ELSE IF ai.kind = "json" THEN "rejected" ELSE ai.kind))
          /\ UNCHANGED <<versions, ptr, stats, summary, scoaching, fresh>>

\* The insert step with its error left unchecked: the handler goes on to
\* the pointer write whether or not the row was stored.
Recompute3mInsertUnchecked(p) ==
    LET l == loc[p]
        row == [l.row EXCEPT !.id = NewId]
    IN
    /\ At(p, "insert")
    /\ l.handler = "plan3m_recompute"
    /\ versions' = IF InsertConflict(row) THEN versions ELSE InsertVersion(row)
    /\ pc' = [pc EXCEPT ![p] = "pointer"]
    /\ loc' = [loc EXCEPT ![p] = [l EXCEPT !.row = row]]
    /\ UNCHANGED <<ptr, stats, summary, scoaching, resp, fresh, aside>>

Recompute3mInsert(p) ==
    LET l == loc[p]
        row == [l.row EXCEPT !.id = NewId]
        r0 == [Resp("plan3m_recompute", row.client_id, NIL_UUID, FALSE, FALSE) EXCEPT !.ai = l.ai]
    IN
    /\ At(p, "insert")
    /\ l.handler = "plan3m_recompute"
    /\ IF InsertConflict(row) THEN
          /\ Finish(p, [r0 EXCEPT !.status = 500, !.err = "failed to write coaching_versions (plan3m)"])
          /\ UNCHANGED <<versions, ptr, stats, summary, scoaching, fresh>>
       ELSE
          /\ versions' = InsertVersion(row)
          /\ pc' = [pc EXCEPT ![p] = "pointer"]
          /\ loc' = [loc EXCEPT ![p] = [l EXCEPT !.row = row]]
          /\ UNCHANGED <<ptr, stats, summary, scoaching, resp, fresh, aside>>

\* The pointer step with the update left out: the call answers ok while
\* client_active_plans keeps the previous plan.
Recompute3mPointerSkipped(p) ==
    LET l == loc[p]
        c == l.row.client_id
        r0 == [Resp("plan3m_recompute", c, NIL_UUID, FALSE, FALSE) EXCEPT !.ai = l.ai]
    IN
    /\ At(p, "pointer")
    /\ l.handler = "plan3m_recompute"
    /\ fresh' = FreshDrop(c)
    /\ Finish(p, [r0 EXCEPT !.status = 200, !.id = l.row.id, !.inserted = TRUE,
                            !.generated_by = l.row.generated_by])
    /\ UNCHANGED <<versions, ptr, stats, summary, scoaching>>

Recompute3mPointer(p) ==
    LET l == loc[p]
        c == l.row.client_id
        r0 == [Resp("plan3m_recompute", c, NIL_UUID, FALSE, FALSE) EXCEPT !.ai = l.ai]
    IN
    /\ At(p, "pointer")
    /\ l.handler = "plan3m_recompute"
    /\ ptr' = [ptr EXCEPT ![c] = IF @.row THEN [@ EXCEPT !.p3 = l.row.id] ELSE @]
    /\ fresh' = FreshDrop(c)
    /\ Finish(p, [r0 EXCEPT !.status = 200, !.id = l.row.id, !.inserted = TRUE,
                            !.generated_by = l.row.generated_by])
    /\ UNCHANGED <<versions, stats, summary, scoaching>>

\* ------------------------------------------------- session coach create
ThemeRank == [t \in THEME_ENUM |-> IF t = "t1" THEN 1 ELSE IF t = "t2" THEN 2 ELSE 3]

\* themes sorted by priority, first element
PrimaryOf(themes) == CHOOSE t \in themes : \A u \in themes : ThemeRank[t] <= ThemeRank[u]
\* first theme whose id differs from the primary one
SecondaryOf(themes) ==
    IF themes \ {PrimaryOf(themes)} = {} THEN NoTheme
    ELSE PrimaryOf(themes \ {PrimaryOf(themes)})

\* extractThemesFromPlanContent
extractThemesFromPlanContent(planRow) == planRow.themes

CreateCandidates ==
    { Ai("json", TRUE, TRUE, NoTheme, NoTheme, {}, {}, {}),
      Ai("json", TRUE, FALSE, NoTheme, NoTheme, {}, {}, {}) }

\* normalizeAIIntoSessionCoach: null unless every required field is present
\* and plan_status is in its enumeration
normalizeAIIntoSessionCoach(ai) == ai.kind = "json" /\ ai.fields_ok /\ ai.status_ok

handleSessionCoachCreate(p, c, s, auth, reasonIn, ai) ==
    LET r0 == Resp("sessioncoach_create", c, s, FALSE, FALSE)
        reason == IF reasonIn \in {"data_change", "manual_regen"} THEN reasonIn ELSE "initial"
        active == ptr[c].p3
        planRows == {r \in versions : r.id = active}
        planRow == IF planRows = {} THEN NoRow ELSE RowById(active)
        themes == extractThemesFromPlanContent(planRow)
        aiOk == normalizeAIIntoSessionCoach(ai)
        generated_by == IF aiOk THEN "ai" ELSE "deterministic"
    IN
    /\ At(p, "idle")
    /\ IF ~auth THEN
          /\ Finish(p, [r0 EXCEPT !.status = 401, !.err = "unauthorized"])
          /\ UNCHANGED <<versions, ptr, stats, summary, scoaching, fresh>>
       ELSE IF active = NoId THEN
          /\ Finish(p, [r0 EXCEPT !.status = 400, !.err = "No active plan3m"])
          /\ UNCHANGED <<versions, ptr, stats, summary, scoaching, fresh>>
       ELSE IF planRow.schema # PLAN3M_SCHEMA_VERSION THEN
          /\ Finish(p, [r0 EXCEPT !.status = 400, !.err = "schema_version"])
          /\ UNCHANGED <<versions, ptr, stats, summary, scoaching, fresh>>
       ELSE IF themes = {} THEN
          /\ Finish(p, [r0 EXCEPT !.status = 400, !.err = "Active plan has no themes"])
          /\ UNCHANGED <<versions, ptr, stats, summary, scoaching, fresh>>
       ELSE
          /\ ToInsert(p, Loc("sessioncoach_create",
                Row(NoId, c, s, NextIndexOf(Thread(c, s)),
                    Hash("content", c, s, IF aiOk THEN 1 ELSE 0, active),
                    "sessioncoach_v1", reason, generated_by, {},
                    {PrimaryOf(themes), SecondaryOf(themes)} \ {NoTheme}, active,
                    IF aiOk THEN "ai" ELSE "baseline"),
                FALSE, FALSE, FALSE, active,
                IF aiOk THEN "accepted" ELSE IF ai.kind = "json" THEN "rejected" ELSE ai.kind))
          /\ UNCHANGED <<versions, ptr, stats, summary, scoaching, fresh>>

SessionCoachInsert(p) ==
    LET l == loc[p]
        row == [l.row EXCEPT !.id = NewId]
        r0 == [Resp("sessioncoach_create", row.client_id, row.session_id, FALSE, FALSE)
                 EXCEPT !.ai = l.ai]
    IN
    /\ At(p, "insert")
    /\ l.handler = "sessioncoach_create"
    /\ IF InsertConflict(row) THEN
          /\ Finish(p, [r0 EXCEPT !.status = 500, !.err = "insert coaching_versions failed"])
          /\ UNCHANGED <<versions, ptr, stats, summary, scoaching, fresh>>
       ELSE
          /\ versions' = InsertVersion(row)
          /\ Finish(p, [r0 EXCEPT !.status = 200, !.id = row.id, !.inserted = TRUE,
                                  !.generated_by = row.generated_by])
          /\ UNCHANGED <<ptr, stats, summary, scoaching, fresh>>

\* ------------------------------------------------- internal AI generate
AiGenCandidates ==
    { Ai("json", TRUE, TRUE, NoTheme, NoTheme, {}, {}, {}),
      Ai("json", TRUE, FALSE, "t3", NoTheme, {}, {}, {}),
      Ai("json", FALSE, TRUE, NoTheme, NoTheme, {}, {}, {}) }

\* buildDeterministicBaseline: themes[0].theme_id || "general_progress"
BaselinePrimary(themes) == IF themes = {} THEN "general_progress" ELSE PrimaryOf(themes)
BaselineSecondary(themes) == IF themes = {} THEN NoTheme ELSE SecondaryOf(themes)

\* validateAndNormalizeAi: null only when the output is no object or
\* what_stood_out ends up empty; every other field falls back or is coerced
validateAndNormalizeAi(ai) == ai.kind = "json" /\ ai.fields_ok

handleInternalCoachingAiGenerate(p, s, cIn, auth, ai) ==
    LET client_id == IF cIn = "" THEN SessionClient[s] ELSE cIn
        r0 == Resp("internal_ai_generate", client_id, s, FALSE, FALSE)
        planVersionId == ptr[client_id].p3
        planRows == {r \in versions : r.id = planVersionId}
        planRow == IF planRows = {} THEN NoRow ELSE RowById(planVersionId)
        themes == planRow.themes
        aiOk == validateAndNormalizeAi(ai)
        generated_by == IF aiOk THEN "ai" ELSE "deterministic"
        primary == IF aiOk /\ ai.primary # NoTheme THEN ai.primary ELSE BaselinePrimary(themes)
        secondary == IF aiOk /\ ai.secondary # NoTheme THEN ai.secondary
                     ELSE BaselineSecondary(themes)
    IN
    /\ At(p, "idle")
    /\ IF ~auth THEN
          /\ Finish(p, [r0 EXCEPT !.status = 401, !.err = "Unauthorized"])
          /\ UNCHANGED <<versions, ptr, stats, summary, scoaching, fresh>>
       ELSE IF stats[s] = 0 THEN
          /\ Finish(p, [r0 EXCEPT !.status = 404, !.err = "session_stats not found"])
          /\ UNCHANGED <<versions, ptr, stats, summary, scoaching, fresh>>
       ELSE IF planVersionId = NoId THEN
          /\ Finish(p, [r0 EXCEPT !.status = 409, !.err = "active_plan3m_id missing"])
          /\ UNCHANGED <<versions, ptr, stats, summary, scoaching, fresh>>
       ELSE IF planRows = {} THEN
          /\ Finish(p, [r0 EXCEPT !.status = 404, !.err = "active plan not found"])
          /\ UNCHANGED <<versions, ptr, stats, summary, scoaching, fresh>>
       ELSE IF planRow.schema # PLAN3M_SCHEMA_VERSION THEN
          /\ Finish(p, [r0 EXCEPT !.status = 409, !.err = "schema_version"])
          /\ UNCHANGED <<versions, ptr, stats, summary, scoaching, fresh>>
       ELSE
          /\ ToInsert(p, Loc("internal_ai_generate",
                Row(NoId, client_id, s, NextIndexOf(Thread(client_id, s)), StatsHash(s),
                    "sessioncoach_v1", "manual_regen", generated_by, {},
                    {primary, secondary} \ {NoTheme}, planVersionId,
                    IF ~aiOk THEN "baseline" ELSE IF ai.status_ok THEN "ai" ELSE "ai_coerced"),
                FALSE, FALSE, FALSE, planVersionId,
                IF aiOk THEN "accepted" ELSE IF ai.kind = "json" THEN "rejected" ELSE ai.kind))
          /\ UNCHANGED <<versions, ptr, stats, summary, scoaching, fresh>>

AiGenerateInsert(p) ==
    LET l == loc[p]
        row == [l.row EXCEPT !.id = NewId]
        r0 == [Resp("internal_ai_generate", row.client_id, row.session_id, FALSE, FALSE)
                 EXCEPT !.ai = l.ai]
    IN
    /\ At(p, "insert")
    /\ l.handler = "internal_ai_generate"
    /\ IF InsertConflict(row) THEN
          /\ Finish(p, [r0 EXCEPT !.status = 500, !.err = "failed to write coaching_versions"])
          /\ UNCHANGED <<versions, ptr, stats, summary, scoaching, fresh>>
       ELSE
          /\ versions' = InsertVersion(row)
          /\ Finish(p, [r0 EXCEPT !.status = 200, !.id = row.id, !.inserted = TRUE,
                                  !.generated_by = row.generated_by])
          /\ UNCHANGED <<ptr, stats, summary, scoaching, fresh>>

\* ------------------------------------------------- public generate
PublicCandidates ==
    { Ai("json", TRUE, TRUE, "t1", NoTheme, {"t1"}, {}, {}),
      Ai("json", TRUE, TRUE, "t1", "t2", {"t3"}, {}, {}),
      Ai("json", TRUE, TRUE, "t1", "t3", {"t1"}, {}, {}),
      Ai("json", FALSE, TRUE, "t1", NoTheme, {"t1"}, {}, {}) }

\* ajvValidateOrThrow(SESSIONCOACH_V1_SCHEMA)
SessionCoachSchemaValid(ai) ==
    /\ ai.fields_ok
    /\ ai.status_ok
    /\ ai.primary \in THEME_ENUM
    /\ ai.secondary \in THEME_ENUM \cup {NoTheme}
    /\ ai.evidence # {}
    /\ ai.evidence \subseteq THEME_ENUM

\* cross-object constraint: themes subset of plan themes
PublicThemesAllowed(ai, planThemeIds) ==
    /\ ai.primary \in planThemeIds
    /\ ai.secondary # NoTheme => ai.secondary \in planThemeIds

PromptHash(c, s, active) == Hash("prompt", c, s, stats[s], active)

handlePublicCoachingGenerate(p, s, auth, force, ai, telOk) ==
    LET c == SessionClient[s]
        active == ptr[c].p3
        planRows == {r \in versions : r.id = active}
        planRow == IF planRows = {} THEN NoRow ELSE RowById(active)
        planThemes == planRow.themes
        prompt_hash == PromptHash(c, s, active)
        cachedQ == /\ scoaching[s].prompt_hash = prompt_hash
                   /\ scoaching[s].status = "ready"
                   /\ scoaching[s].has_output
        r0 == [Resp("public_generate", c, s, force, <<"public_generate", c, s>> \in fresh)
                 EXCEPT !.match = cachedQ]
    IN
    /\ At(p, "idle")
    /\ IF ~auth THEN
          /\ Finish(p, [r0 EXCEPT !.status = 401, !.err = "unauthorized"])
          /\ UNCHANGED <<versions, ptr, stats, summary, scoaching, fresh>>
       ELSE IF ai.kind = "disabled" THEN
          /\ Finish(p, [r0 EXCEPT !.status = 500, !.err = "Missing OPENAI_API_KEY", !.ai = ai.kind])
          /\ UNCHANGED <<versions, ptr, stats, summary, scoaching, fresh>>
       ELSE IF stats[s] = 0 THEN
          /\ Finish(p, [r0 EXCEPT !.status = 404, !.err = "session_stats not found"])
          /\ UNCHANGED <<versions, ptr, stats, summary, scoaching, fresh>>
       ELSE IF active = NoId THEN
          /\ Finish(p, [r0 EXCEPT !.status = 409, !.err = "No active 3-month plan"])
          /\ UNCHANGED <<versions, ptr, stats, summary, scoaching, fresh>>
       ELSE IF planRow.schema # PLAN3M_SCHEMA_VERSION THEN
          /\ Finish(p, [r0 EXCEPT !.status = 409, !.err = "Active plan pointer is invalid"])
          /\ UNCHANGED <<versions, ptr, stats, summary, scoaching, fresh>>
       ELSE IF ~force /\ cachedQ THEN
          /\ Finish(p, safeTelemetry([r0 EXCEPT !.status = 200, !.cached = TRUE,
                                         !.tel = "ok:hit"], telOk))
          /\ fresh' = FreshAfter("public_generate", c, s, force)
          /\ UNCHANGED <<versions, ptr, stats, summary, scoaching>>
       ELSE IF ai.kind = "hang" THEN
          /\ Wait(p, "public_generate", c, s, force, r0.fresh, cachedQ)
          /\ UNCHANGED <<versions, ptr, stats, summary, scoaching, fresh>>
       ELSE IF ai.kind # "json" THEN
          /\ Finish(p, safeTelemetry([r0 EXCEPT !.status = 500, !.err = ai.kind,
                                         !.tel = "error:collaborator", !.ai = ai.kind], telOk))
          /\ UNCHANGED <<versions, ptr, stats, summary, scoaching, fresh>>
       ELSE IF ~SessionCoachSchemaValid(ai) THEN
          /\ Finish(p, safeTelemetry([r0 EXCEPT !.status = 500, !.err = "schema_validation",
                                         !.tel = "error:schema_validation",
                                         !.ai = "rejected"], telOk))
          /\ UNCHANGED <<versions, ptr, stats, summary, scoaching, fresh>>
       ELSE IF ~PublicThemesAllowed(ai, planThemes) THEN
          /\ Finish(p, safeTelemetry([r0 EXCEPT !.status = 500, !.err = "theme_not_in_plan",
                                         !.tel = "error:theme_not_in_plan",
                                         !.ai = "rejected"], telOk))
          /\ UNCHANGED <<versions, ptr, stats, summary, scoaching, fresh>>
       ELSE
          /\ ToInsert(p, Loc("public_generate",
                Row(NoId, c, s, NextIndexOf({r \in versions : r.session_id = s}),
                    StatsHash(s), "sessioncoach_v1",
                    IF force THEN "manual_regen" ELSE "data_change_or_miss",
                    "coaching_generate_sessioncoach_v1", {},
                    ({ai.primary, ai.secondary} \ {NoTheme}) \cup ai.evidence, active, "ai"),
                force, r0.fresh, cachedQ, active, "accepted"))
          /\ UNCHANGED <<versions, ptr, stats, summary, scoaching, fresh>>

PublicInsert(p, telOk) ==
    LET l == loc[p]
        row == [l.row EXCEPT !.id = NewId]
        c == row.client_id
        s == row.session_id
        r0 == [Resp("public_generate", c, s, l.force, l.fresh)
                 EXCEPT !.ai = l.ai, !.match = l.match]
    IN
    /\ At(p, "insert")
    /\ l.handler = "public_generate"
    /\ IF InsertConflict(row) THEN
          /\ Finish(p, safeTelemetry([r0 EXCEPT !.status = 500, !.err = "insert_failed",
                                         !.tel = "error:insert_failed"], telOk))
          /\ UNCHANGED <<versions, ptr, stats, summary, scoaching, fresh>>
       ELSE
          /\ versions' = InsertVersion(row)
          /\ scoaching' = [scoaching EXCEPT ![s] =
                 [@ EXCEPT !.prompt_hash = Hash("prompt", c, s, row.data_hash[4], l.prev),
                           !.status = "ready", !.has_output = TRUE,
                           !.rows = IF @ = 0 THEN 1 ELSE @]]
          /\ Finish(p, safeTelemetry([r0 EXCEPT !.status = 200, !.id = row.id,
                                         !.inserted = TRUE,
                                         !.generated_by = row.generated_by,
                                         !.tel = "ok:miss"], telOk))
          /\ fresh' = FreshAfter("public_generate", c, s, l.force)
          /\ UNCHANGED <<ptr, stats, summary>>

\* ------------------------------------------------- internal generate
InternalCandidates == { Ai("json", TRUE, TRUE, NoTheme, NoTheme, {}, {}, {}) }

\* content_md is written by the internal route only
HasContentMd(r) == r.schema = "coaching_v0"

InternalHit(p, r0, c, s, last, telOk) ==
    /\ summary' = IF summary[s] = NoHash /\ HasContentMd(last)
                  THEN [summary EXCEPT ![s] = last.data_hash] ELSE summary
    /\ scoaching' = [scoaching EXCEPT ![s] = UpsertPublished(@, Hash("cache", "", "", 0, 0))]
    /\ Finish(p, safeTelemetry([r0 EXCEPT !.status = 200, !.cached = TRUE,
                                   !.match = TRUE, !.tel = "ok:hit"], telOk))
    /\ fresh' = fresh \cup {<<"internal_generate", c, s>>}
    /\ UNCHANGED <<versions, ptr, stats>>

handleInternalCoachingGenerate(p, s, auth, force, reasonIn, ai, telOk) ==
    LET c == SessionClient[s]
        rA == Resp("internal_generate", c, s, force, <<"internal_generate", c, s>> \in fresh)
        r0 == [rA EXCEPT !.ai = ai.kind]
        existing == summary[s] # NoHash
        lasts == LatestRows(Thread(c, s))
        reason == IF reasonIn # "" THEN reasonIn
                  ELSE IF force /\ existing THEN "manual_regen"
                  ELSE IF existing THEN "data_change" ELSE "initial"
    IN
    /\ At(p, "idle")
    /\ IF ~auth THEN
          /\ Finish(p, [rA EXCEPT !.status = 401, !.err = "Unauthorized"])
          /\ UNCHANGED <<versions, ptr, stats, summary, scoaching, fresh>>
       ELSE IF ai.kind = "disabled" THEN
          /\ Finish(p, safeTelemetry([r0 EXCEPT !.status = 500,
                                         !.err = "Missing OPENAI_API_KEY",
                                         !.tel = "error:env_missing"], telOk))
          /\ UNCHANGED <<versions, ptr, stats, summary, scoaching, fresh>>
       ELSE IF stats[s] = 0 THEN
          /\ Finish(p, safeTelemetry([rA EXCEPT !.status = 404,
                                         !.err = "session_stats not found",
                                         !.tel = "error:stats_missing"], telOk))
          /\ UNCHANGED <<versions, ptr, stats, summary, scoaching, fresh>>
       ELSE
          \E last \in IF lasts = {} THEN {NoRow} ELSE lasts :
             IF last # NoRow /\ last.data_hash = StatsHash(s) THEN
                InternalHit(p, rA, c, s, last, telOk)
             ELSE IF existing /\ summary[s] = StatsHash(s) THEN
                InternalHit(p, rA, c, s, NoRow, telOk)
             ELSE IF ai.kind = "hang" THEN
                /\ summary' = IF force THEN [summary EXCEPT ![s] = NoHash] ELSE summary
                /\ Wait(p, "internal_generate", c, s, force, rA.fresh, FALSE)
                /\ UNCHANGED <<versions, ptr, stats, scoaching, fresh>>
             ELSE IF ai.kind # "json" THEN
                /\ summary' = IF force THEN [summary EXCEPT ![s] = NoHash] ELSE summary
                /\ Finish(p, safeTelemetry([r0 EXCEPT !.status = 500, !.err = ai.kind,
                                               !.tel = "error:unhandled_error"], telOk))
                /\ UNCHANGED <<versions, ptr, stats, scoaching, fresh>>
             ELSE
                /\ summary' = IF force THEN [summary EXCEPT ![s] = NoHash] ELSE summary
                /\ ToInsert(p, Loc("internal_generate",
                      Row(NoId, c, s, NoIndex, StatsHash(s), "coaching_v0", reason,
                          "", {}, {}, NoId, "ai"),
                      force, rA.fresh, FALSE, last.version_index + 1, "accepted"))
                /\ UNCHANGED <<versions, ptr, stats, scoaching, fresh>>

\* The insert names no version_index: the store either keeps the row with
\* a NULL index or rejects it (NOT NULL column).
InternalInsert(p, nullable, telOk) ==
    LET l == loc[p]
        row == [l.row EXCEPT !.id = NewId]
        c == row.client_id
        s == row.session_id
        r0 == [Resp("internal_generate", c, s, l.force, l.fresh) EXCEPT !.ai = l.ai]
    IN
    /\ At(p, "insert")
    /\ l.handler = "internal_generate"
    /\ IF ~nullable THEN
          /\ Finish(p, safeTelemetry([r0 EXCEPT !.status = 500, !.err = "insert_failed",
                                         !.tel = "error:unhandled_error"], telOk))
          /\ UNCHANGED <<versions, ptr, stats, summary, scoaching, fresh>>
       ELSE
          /\ versions' = InsertVersion(row)
          /\ summary' = [summary EXCEPT ![s] = row.data_hash]
          /\ scoaching' = [scoaching EXCEPT ![s] =
                 UpsertPublished([@ EXCEPT !.is_published = FALSE, !.published = 0,
                                           !.rows = IF @ = 0 THEN 1 ELSE @],
                                 Hash("model", "", "", 0, 0))]
          /\ Finish(p, safeTelemetry([r0 EXCEPT !.status = 200, !.id = row.id,
                                         !.inserted = TRUE, !.tel = "ok:miss"], telOk))
          /\ fresh' = FreshAfter("internal_generate", c, s, l.force)
          /\ UNCHANGED <<ptr, stats>>

\* The request stops between two of its steps (process killed, connection
\* lost): nothing more of it runs.
Crash(p) ==
    /\ (At(p, "insert") \/ At(p, "pointer") \/ At(p, "waiting"))
    /\ pc' = [pc EXCEPT ![p] = "idle"]
    /\ loc' = [loc EXCEPT ![p] = NoLoc]
    /\ UNCHANGED <<versions, ptr, stats, summary, scoaching, resp, fresh, aside>>

\* The HTTP client gives the awaited request up by a limit of its own
\* (connection reset, library default): the await throws into the handler's
\* catch, which answers 500.
AwaitRejects(p, telOk) ==
    LET l == loc[p]
        r0 == [Resp(l.handler, l.row.client_id, l.row.session_id, l.force, l.fresh)
                 EXCEPT !.match = l.match, !.ai = l.ai, !.status = 500,
                        !.err = "collaborator_unreachable"]
    IN
    /\ At(p, "waiting")
    /\ Finish(p, IF l.handler = "plan3m_recompute" THEN r0
                 ELSE safeTelemetry([r0 EXCEPT !.tel = "error:collaborator"], telOk))
    /\ UNCHANGED <<versions, ptr, stats, summary, scoaching, fresh>>

\* ----------------------------------------------------------------- Next
Bool == {TRUE, FALSE}

\* upload route and admin activation: the upstream facts of both families.
\* auths: the credentials the callers present (TRUE = accepted).
Upstream(p, auths) ==
    \/ \E s \in Sessions, h \in 1..MaxStat : StatsUpsert(p, s, h)
    \/ \E c \in Clients, admin \in auths, v \in Ids \cup {MissingId} :
          ActivatePlan3m(p, c, admin, v)

\* the plan flows: plan6m regen and plan3m recompute.
\* fails: the ways the collaborator can fail in this run.
\* tels: the outcomes of the telemetry inserts (TRUE = row written).
PlanFlows(p, auths, fails, tels) ==
    \/ \E c \in Clients, auth \in auths, force \in Bool,
          ai \in fails \cup Plan6mCandidates, telOk \in tels :
          handleAdminPlan6mRegen(p, c, auth, force, ai, telOk)
    \/ \E telOk \in tels : Regen6mInsert(p, telOk)
    \/ \E c \in Clients, auth \in auths, reasonIn \in ReasonsIn, now \in 1..MaxClock,
          ai \in fails \cup Plan3mCandidates :
          handlePlan3mRecompute(p, c, auth, reasonIn, now, ai)
    \/ Recompute3mInsert(p)
    \/ Recompute3mPointer(p)

\* the session flows: the four session-coaching generators
SessionFlows(p, auths, fails, tels) ==
    \/ \E c \in Clients, s \in Sessions, auth \in auths, reasonIn \in ReasonsIn,
          ai \in fails \cup CreateCandidates :
          handleSessionCoachCreate(p, c, s, auth, reasonIn, ai)
    \/ SessionCoachInsert(p)
    \/ \E s \in Sessions, cIn \in {""} \cup Clients, auth \in auths,
          ai \in fails \cup AiGenCandidates :
          handleInternalCoachingAiGenerate(p, s, cIn, auth, ai)
    \/ AiGenerateInsert(p)
    \/ \E s \in Sessions, auth \in auths, force \in Bool,
          ai \in fails \cup PublicCandidates, telOk \in tels :
          handlePublicCoachingGenerate(p, s, auth, force, ai, telOk)
    \/ \E telOk \in tels : PublicInsert(p, telOk)
    \/ \E s \in Sessions, auth \in auths, force \in Bool, reasonIn \in ReasonsIn,
          ai \in fails \cup InternalCandidates, telOk \in tels :
          handleInternalCoachingGenerate(p, s, auth, force, reasonIn, ai, telOk)
    \/ \E nullable \in Bool, telOk \in tels : InternalInsert(p, nullable, telOk)

\* plan flows, one request at a time
NextPlan ==
    \/ Upstream("p1", Bool)
    \/ PlanFlows("p1", Bool, AiFailures, {TRUE})
    \/ Crash("p1")
    \/ Return("p1")

SpecPlan == Init /\ [][NextPlan]_vars

\* session flows, one request at a time
NextSession ==
    \/ Upstream("p1", Bool)
    \/ SessionFlows("p1", Bool, AiFailures, {TRUE})
    \/ Crash("p1")
    \/ Return("p1")

SpecSession == Init /\ [][NextSession]_vars

\* plan flows, the steps of two authorised requests interleaving while the
\* collaborator answers
NextConc ==
    \E p \in Procs :
       \/ Upstream(p, {TRUE})
       \/ PlanFlows(p, {TRUE}, {}, {TRUE})
       \/ Crash(p)
       \/ Return(p)

SpecConc == Init /\ [][NextConc]_vars

\* every flow, one authorised request at a time while the collaborator
\* answers
NextAll ==
    \/ Upstream("p1", {TRUE})
    \/ PlanFlows("p1", {TRUE}, {}, {TRUE})
    \/ SessionFlows("p1", {TRUE}, {}, {TRUE})
    \/ Crash("p1")
    \/ Return("p1")

SpecAll == Init /\ [][NextAll]_vars

\* one authorised request at a time: the plan flows while the collaborator
\* either answers or never answers, the session flows while it never
\* answers
NextHang ==
    \/ Upstream("p1", {TRUE})
    \/ PlanFlows("p1", {TRUE}, {AiHang}, {TRUE})
    \/ \E c \in Clients, s \in Sessions, reasonIn \in ReasonsIn :
          handleSessionCoachCreate("p1", c, s, TRUE, reasonIn, AiHang)
    \/ SessionCoachInsert("p1")
    \/ \E s \in Sessions : handleInternalCoachingAiGenerate("p1", s, "", TRUE, AiHang)
    \/ AiGenerateInsert("p1")
    \/ \E s \in Sessions, force \in Bool :
          handlePublicCoachingGenerate("p1", s, TRUE, force, AiHang, TRUE)
    \/ \E s \in Sessions, force \in Bool, reasonIn \in ReasonsIn :
          handleInternalCoachingGenerate("p1", s, TRUE, force, reasonIn, AiHang, TRUE)
    \/ AwaitRejects("p1", TRUE)
    \/ Crash("p1")
    \/ Return("p1")

SpecHang == Init /\ [][NextHang]_vars

\* one authorised request at a time while the collaborator answers and the
\* telemetry inserts succeed or fail: the flows that write telemetry
NextTel ==
    \/ Upstream("p1", {TRUE})
    \/ \E c \in Clients, force \in Bool, ai \in Plan6mCandidates, telOk \in Bool :
          handleAdminPlan6mRegen("p1", c, TRUE, force, ai, telOk)
    \/ \E telOk \in Bool : Regen6mInsert("p1", telOk)
    \/ \E s \in Sessions, force \in Bool, ai \in PublicCandidates, telOk \in Bool :
          handlePublicCoachingGenerate("p1", s, TRUE, force, ai, telOk)
    \/ \E telOk \in Bool : PublicInsert("p1", telOk)
    \/ \E s \in Sessions, force \in Bool, reasonIn \in ReasonsIn,
          ai \in AiFailures \cup InternalCandidates, telOk \in Bool :
          handleInternalCoachingGenerate("p1", s, TRUE, force, reasonIn, ai, telOk)
    \/ \E nullable \in Bool, telOk \in Bool : InternalInsert("p1", nullable, telOk)
    \/ Crash("p1")
    \/ Return("p1")

SpecTel == Init /\ [][NextTel]_vars

\* the session flows and the activation with any credentials, and the plan
\* flows called without credentials
NextAuth ==
    \/ NextSession
    \/ \E c \in Clients, force \in Bool, ai \in Plan6mCandidates :
          handleAdminPlan6mRegen("p1", c, FALSE, force, ai, TRUE)
    \/ \E c \in Clients, reasonIn \in ReasonsIn, now \in 1..MaxClock, ai \in Plan3mCandidates :
          handlePlan3mRecompute("p1", c, FALSE, reasonIn, now, ai)

SpecAuth == Init /\ [][NextAuth]_vars

\* the plan flows (regen not forced) and the activation for two clients,
\* one authorised request at a time while the collaborator answers
NextPtr ==
    \/ \E s \in Sessions, h \in 1..MaxStat : StatsUpsert("p1", s, h)
    \/ \E c \in PtrClients, v \in Ids \cup {MissingId} : ActivatePlan3m("p1", c, TRUE, v)
    \/ \E c \in PtrClients, ai \in Plan6mCandidates :
          handleAdminPlan6mRegen("p1", c, TRUE, FALSE, ai, TRUE)
    \/ Regen6mInsert("p1", TRUE)
    \/ \E c \in PtrClients, reasonIn \in ReasonsIn, now \in 1..MaxClock,
          ai \in Plan3mCandidates :
          handlePlan3mRecompute("p1", c, TRUE, reasonIn, now, ai)
    \/ Recompute3mInsert("p1")
    \/ Recompute3mPointer("p1")
    \/ Crash("p1")
    \/ Return("p1")

SpecPtr == Init /\ [][NextPtr]_vars

\* body.reason of a recompute request: absent, or a text of the caller
RecomputeReasons == {"", "manual"}

\* the plan3m recompute called with and without a reason, one authorised
\* request at a time while the collaborator answers
NextReason ==
    \/ Upstream("p1", {TRUE})
    \/ \E c \in Clients, reasonIn \in RecomputeReasons, now \in 1..MaxClock,
          ai \in Plan3mCandidates :
          handlePlan3mRecompute("p1", c, TRUE, reasonIn, now, ai)
    \/ Recompute3mInsert("p1")
    \/ Recompute3mPointer("p1")
    \/ Crash("p1")
    \/ Return("p1")

SpecReason == Init /\ [][NextReason]_vars

\* ============================================================ hashing
\* JSON values as the hash helpers see them: a scalar is its token, an object is
\* the sequence of its <<key, value>> members in insertion order (the order
\* Object.keys and JSON.stringify walk them in).
Jatom(a) == [t |-> "atom", a |-> a, kv |-> <<>>]
Jobj(kv) == [t |-> "obj", a |-> "", kv |-> kv]

\* Keys in the order of Array.prototype.sort() on strings.
KeyOrder == <<"baseline_stats", "carry", "client_id", "dispersion", "handicap",
              "latest_session_stats_snapshot", "now_iso", "plan_id", "plan_themes",
              "plan_version_id", "player_profile", "previous_plan_id", "reason",
              "schema_version", "session_id", "session_stats", "skill_tier",
              "snapshot_hash", "snapshots", "theme_enum">>

RECURSIVE SortMembers(_)
SortMembers(kv) ==
    IF kv = <<>> THEN <<>>
    ELSE LET KeyRank(key) == CHOOSE n \in 1..Len(KeyOrder) : KeyOrder[n] = key
             i == CHOOSE j \in 1..Len(kv) :
                     \A k \in 1..Len(kv) : KeyRank(kv[j][1]) <= KeyRank(kv[k][1])
             rest == [k \in 1..(Len(kv) - 1) |-> IF k < i THEN kv[k] ELSE kv[k + 1]]
         IN <<kv[i]>> \o SortMembers(rest)

\* norm of stableStringify: Object.keys(obj).sort(), then norm of every member.
RECURSIVE norm(_)
norm(v) ==
    IF v.t = "atom" THEN v
    ELSE Jobj(SortMembers([i \in 1..Len(v.kv) |-> <<v.kv[i][1], norm(v.kv[i][2])>>]))

\* JSON.stringify: members in insertion order, as a sequence of tokens.
RECURSIVE JSONstringify(_)
RECURSIVE JSONmembers(_)
JSONmembers(kv) ==
    IF kv = <<>> THEN <<>>
    ELSE <<kv[1][1], ":">> \o JSONstringify(kv[1][2])
            \o (IF Len(kv) > 1 THEN <<",">> ELSE <<>>) \o JSONmembers(Tail(kv))
JSONstringify(v) ==
    IF v.t = "atom" THEN <<v.a>> ELSE <<"{">> \o JSONmembers(v.kv) \o <<"}">>

stableStringify(value) == JSONstringify(norm(value))

\* sha256 is taken as collision free: the digest stands for the hashed string.
sha256Hex(s) == <<"sha256">> \o s

\* stats_json values: objects over two keys, nested at most twice.
StatKeys == {"carry", "dispersion"}
ObjectsOver(V) ==
    {Jobj(<<>>)}
      \cup {Jobj(<<<<k, v>>>>) : k \in StatKeys, v \in V}
      \cup {Jobj(<<<<ks[1], v1>>, <<ks[2], v2>>>>) :
              ks \in {q \in StatKeys \X StatKeys : q[1] # q[2]}, v1 \in V, v2 \in V}
StatsJsonValues == ObjectsOver({Jatom("1"), Jatom("2")} \cup ObjectsOver({Jatom("1")}))

\* Same logical content: equal after the member order is forgotten.
SameContent(x, y) == norm(x) = norm(y)

\* The value each flow hashes, built from the stats_json the flow read.
Plan6mInputForHash(c, x) ==
    Jobj(<<<<"schema_version", Jatom("plan6m_v1")>>, <<"client_id", Jatom(c)>>,
           <<"snapshots", x>>, <<"theme_enum", Jatom("THEME_ENUM")>>>>)
PromptInputs(c, x) ==
    Jobj(<<<<"schema_version", Jatom("sessioncoach_v1")>>, <<"session_id", Jatom("s1")>>,
           <<"client_id", Jatom(c)>>, <<"plan_version_id", Jatom("plan")>>,
           <<"plan_id", Jatom("plan")>>, <<"snapshot_hash", Jatom("hash")>>,
           <<"session_stats", x>>, <<"baseline_stats", Jatom("null")>>,
           <<"plan_themes", Jatom("themes")>>>>)
InputsSnapshot(c, reason, x) ==
    Jobj(<<<<"schema_version", Jatom("plan3m_v1.1")>>, <<"client_id", Jatom(c)>>,
           <<"now_iso", Jatom("now")>>, <<"reason", Jatom(reason)>>,
           <<"previous_plan_id", Jatom("null")>>,
           <<"player_profile", Jobj(<<<<"handicap", Jatom("null")>>,
                                      <<"skill_tier", Jatom("tier")>>>>)>>,
           <<"latest_session_stats_snapshot", x>>>>)

Plan6mDataHash(c, x) == sha256Hex(stableStringify(Plan6mInputForHash(c, x)))
CreateDataHash(out) == sha256Hex(stableStringify(out))
PublicPromptHash(c, x) == sha256Hex(stableStringify(PromptInputs(c, x)))
Plan3mInputsHash(c, reason, x) == sha256Hex(JSONstringify(InputsSnapshot(c, reason, x)))

HashInputs ==
    UNION {{[fn |-> "input", flow |-> "", a |-> x, b |-> y, ha |-> <<>>, hb |-> <<>>] :
               y \in {z \in StatsJsonValues : SameContent(x, z)}} :
           x \in StatsJsonValues}

HashPlan6m ==
    /\ calc.fn = "input"
    /\ calc' = [calc EXCEPT !.fn = "hash", !.flow = "plan6m_regen",
                  !.ha = Plan6mDataHash("c1", calc.a),
                  !.hb = Plan6mDataHash("c1", calc.b)]
    /\ UNCHANGED <<tables, sessions, result>>

HashCreate ==
    /\ calc.fn = "input"
    /\ calc' = [calc EXCEPT !.fn = "hash", !.flow = "sessioncoach_create",
                  !.ha = CreateDataHash(calc.a),
                  !.hb = CreateDataHash(calc.b)]
    /\ UNCHANGED <<tables, sessions, result>>

HashPublic ==
    /\ calc.fn = "input"
    /\ calc' = [calc EXCEPT !.fn = "hash", !.flow = "public_generate",
                  !.ha = PublicPromptHash("c1", calc.a),
                  !.hb = PublicPromptHash("c1", calc.b)]
    /\ UNCHANGED <<tables, sessions, result>>

HashPlan3m ==
    /\ calc.fn = "input"
    /\ calc' = [calc EXCEPT !.fn = "hash", !.flow = "plan3m_recompute",
                  !.ha = Plan3mInputsHash("c1", "session_upload", calc.a),
                  !.hb = Plan3mInputsHash("c1", "session_upload", calc.b)]
    /\ UNCHANGED <<tables, sessions, result>>

\* Empty tables, idle request slots, and the inputs of a pure helper in calc.
InitCalc(inputs) ==
    /\ versions = {}
    /\ ptr = [c \in PtrClients |-> [row |-> FALSE, p3 |-> NoId, p6 |-> NoId]]
    /\ stats = [s \in Sessions |-> 0]
    /\ summary = [s \in Sessions |-> NoHash]
    /\ scoaching = [s \in Sessions |-> NoCoaching]
    /\ pc = [p \in Procs |-> "idle"]
    /\ loc = [p \in Procs |-> NoLoc]
    /\ resp = [p \in Procs |-> NoResp]
    /\ fresh = {}
    /\ sessions = [s \in Sessions |-> NoSession]
    /\ result = NoResult
    /\ calc \in inputs

NextHasher ==
    \/ HashPlan6m
    \/ HashCreate
    \/ HashPublic
    \/ HashPlan3m
SpecHasher == InitCalc(HashInputs) /\ [][NextHasher]_vars

\* ================================================= deterministic baseline
\* stats_json.summary and the items of stats_json.highlights: a string (empty,
\* blank or text) or a value that is no string.
NotString == "<no string>"
SummaryValues == {NotString, "", " ", "text"}
trim(s) == IF s = " " THEN "" ELSE s
HighlightValues ==
    LET HighlightItems == {NotString, "", " ", "hit"}
    IN {[arr |-> FALSE, items |-> <<>>]}
         \cup {[arr |-> TRUE, items |-> q] :
                 q \in {<<>>} \cup {<<x>> : x \in HighlightItems}
                              \cup {<<x, y>> : x, y \in HighlightItems}}

Content(summ, stood, status, primary) ==
    [session_summary |-> summ, what_stood_out |-> stood, plan_status |-> status,
     primary_theme |-> primary]
NoContent == Content("", <<>>, "", NoTheme)

\* ai-generate.ts buildDeterministicBaseline
buildDeterministicBaseline(themes, summ, highlights) ==
    LET IsText(h) == h # NotString /\ trim(h) # ""
        TrimAll(q) == [i \in 1..Len(q) |-> trim(q[i])]
        FirstFour(q) == SubSeq(q, 1, IF Len(q) < 4 THEN Len(q) ELSE 4)
        text == IF summ # NotString THEN summ ELSE "Session stats received and reviewed."
        picked == IF highlights.arr
                  THEN FirstFour(TrimAll(SelectSeq(highlights.items, IsText)))
                  ELSE <<>>
        stoodOut == IF picked = <<>>
                    THEN <<"Key metrics snapshot captured for this session.">>
                    ELSE picked
    IN Content(text, stoodOut, "neutral", BaselinePrimary(themes))

\* part_004 baseDeterministic, built after the empty theme list was rejected
baseDeterministic(themes, latestSnapshot) ==
    Content("This session has been logged successfully.",
            <<"Primary focus">>
               \o (IF SecondaryOf(themes) # NoTheme THEN <<"Secondary focus">> ELSE <<>>)
               \o (IF latestSnapshot THEN <<"Snapshot captured for this session.">>
                   ELSE <<"No snapshot found; coaching is plan-driven.">>),
            "aligned", PrimaryOf(themes))

\* The acceptance check of the session-coaching flows: required fields present,
\* plan_status in its enumeration, primary theme among the plan's themes.
Accepts(content, allowed) ==
    /\ content.session_summary # ""
    /\ Len(content.what_stood_out) >= 1
    /\ content.plan_status \in {"aligned", "neutral", "review_needed"}
    /\ content.primary_theme \in allowed

BaselineInputs ==
    {[fn |-> "input", flow |-> "", themes |-> th, summary |-> su, highlights |-> hi,
      snapshot |-> sn, out |-> NoContent] :
        th \in SUBSET THEME_ENUM, su \in SummaryValues, hi \in HighlightValues,
        sn \in BOOLEAN}

BaselineAiGenerate ==
    /\ calc.fn = "input"
    /\ calc' = [calc EXCEPT !.fn = "baseline", !.flow = "internal_ai_generate",
                  !.out = buildDeterministicBaseline(calc.themes, calc.summary,
                                                     calc.highlights)]
    /\ UNCHANGED <<tables, sessions, result>>

BaselineCreate ==
    /\ calc.fn = "input"
    /\ calc' = IF calc.themes = {}
               THEN [calc EXCEPT !.fn = "no themes", !.flow = "sessioncoach_create"]
               ELSE [calc EXCEPT !.fn = "baseline", !.flow = "sessioncoach_create",
                       !.out = baseDeterministic(calc.themes, calc.snapshot)]
    /\ UNCHANGED <<tables, sessions, result>>

NextBaseline ==
    \/ BaselineAiGenerate
    \/ BaselineCreate
SpecBaseline == InitCalc(BaselineInputs) /\ [][NextBaseline]_vars

\* ========================================== internal generate, step by step
\* The tail of handleInternalCoachingGenerate as the sequence of its awaited
\* writes.  session_coaching has the unique index on session_id that the
\* upserts name as their conflict target: the plain insert is rejected when the
\* session has a row, and the handler does not look at the result.

\* The plain insert without the unique index: every call adds a published row.
InternalPublishNoIndex(p) ==
    LET s == loc[p].row.session_id IN
    /\ At(p, "publish")
    /\ scoaching' = [scoaching EXCEPT ![s] =
           [@ EXCEPT !.status = "ready", !.has_output = TRUE, !.is_published = TRUE,
                     !.rows = @ + 1, !.published = @ + 1]]
    /\ pc' = [pc EXCEPT ![p] = "upsert"]
    /\ UNCHANGED <<versions, ptr, stats, summary, loc, resp, fresh, aside>>

\* insert into coaching_versions
InternalVersionInsert(p) ==
    /\ At(p, "insert")
    /\ loc[p].handler = "internal_generate"
    /\ versions' = InsertVersion([loc[p].row EXCEPT !.id = NewId])
    /\ loc' = [loc EXCEPT ![p].row.id = NewId]
    /\ pc' = [pc EXCEPT ![p] = "unpublish"]
    /\ UNCHANGED <<ptr, stats, summary, scoaching, resp, fresh, aside>>

\* update({is_published: false}).eq(session_id).eq(is_published, true)
InternalUnpublish(p) ==
    LET s == loc[p].row.session_id IN
    /\ At(p, "unpublish")
    /\ scoaching' = [scoaching EXCEPT ![s] =
           [@ EXCEPT !.is_published = FALSE, !.published = 0]]
    /\ pc' = [pc EXCEPT ![p] = "publish"]
    /\ UNCHANGED <<versions, ptr, stats, summary, loc, resp, fresh, aside>>

\* insert({..., is_published: true}), result not checked
InternalPublish(p) ==
    LET s == loc[p].row.session_id IN
    /\ At(p, "publish")
    /\ scoaching' = IF scoaching[s].rows = 0
                    THEN [scoaching EXCEPT ![s] =
                            UpsertPublished(@, Hash("prompt", "", "", 0, 0))]
                    ELSE scoaching
    /\ pc' = [pc EXCEPT ![p] = "upsert"]
    /\ UNCHANGED <<versions, ptr, stats, summary, loc, resp, fresh, aside>>

\* coaching_summary upsert, session_coaching upsert on session_id, response
InternalUpsert(p) ==
    LET l == loc[p]
        c == l.row.client_id
        s == l.row.session_id
        r0 == [Resp("internal_generate", c, s, l.force, l.fresh) EXCEPT !.ai = l.ai]
    IN
    /\ At(p, "upsert")
    /\ summary' = [summary EXCEPT ![s] = l.row.data_hash]
    /\ scoaching' = [scoaching EXCEPT ![s] = UpsertPublished(@, Hash("model", "", "", 0, 0))]
    /\ Finish(p, [r0 EXCEPT !.status = 200, !.id = l.row.id, !.inserted = TRUE,
                            !.tel = "ok:miss"])
    /\ fresh' = FreshAfter("internal_generate", c, s, l.force)
    /\ UNCHANGED <<versions, ptr, stats>>

NextPub ==
    \E p \in Procs :
       \/ \E s \in Sessions, h \in 1..MaxStat : StatsUpsert(p, s, h)
       \/ \E s \in Sessions, force \in Bool, ai \in InternalCandidates :
             handleInternalCoachingGenerate(p, s, TRUE, force, "", ai, TRUE)
       \/ InternalVersionInsert(p)
       \/ InternalUnpublish(p)
       \/ InternalPublish(p)
       \/ InternalUpsert(p)
       \/ Return(p)

SpecPub == Init /\ [][NextPub]_vars

\* ============================================================= the runner
\* runSessionCoachingForSession: one run is one step.  called records that the
\* run posted to the generator route; run flips with every run that returns.
RunResult(s, ok, status, cached, error, called) ==
    [session_id |-> s, ok |-> ok, status |-> status, cached |-> cached,
     error |-> error, called |-> called, run |-> 1 - result.run]

\* .from("session_coaching").select("id").eq("session_id", sid).maybeSingle():
\* data is null without a row and, with PGRST116 ignored, with several rows
sessionHasSessionCoachingRow(s) == scoaching[s].rows = 1

\* A check that looks for the plan schema in place of sessioncoach_v1.
sessionHasPersistedPlan(s, c) ==
    \E r \in Thread(c, s) : r.schema = PLAN3M_SCHEMA_VERSION

\* latest 5 rows of (client_id, session_id) by created_at, some of them
\* with content_json.schema_version = "sessioncoach_v1"
sessionHasPersistedCoaching(s, c) ==
    LET rs == Thread(c, s)
        latest == {r \in rs : Cardinality({q \in rs : q.id > r.id}) < 5}
    IN \E r \in latest : r.schema = "sessioncoach_v1"

\* bumpSessionStatus: update of the sessions row
bumpSessionStatus(s, status) == [sessions EXCEPT ![s].coaching_status = status]

\* A catch block that returns the failure without writing it to the session.
RunnerCatchSilent(s) == bumpSessionStatus(s, "pending")

\* catch: readAttempts, then status failed with coaching_attempts + 1
RunnerCatch(s) ==
    [sessions EXCEPT ![s].coaching_status = "failed", ![s].coaching_attempts = @ + 1]

\* POST /api/coaching/sessioncoach/create as the runner sees it: the row the
\* route stores when it answers 200, NoRow when it answers anything else.
callGenerator(c, s, secretOk, ai) ==
    LET active == ptr[c].p3
        planRow == IF active \in Ids THEN RowById(active) ELSE NoRow
        themes == extractThemesFromPlanContent(planRow)
        aiOk == normalizeAIIntoSessionCoach(ai)
        row == Row(NewId, c, s, NextIndexOf(Thread(c, s)),
                   Hash("content", c, s, IF aiOk THEN 1 ELSE 0, active),
                   "sessioncoach_v1", "initial",
                   IF aiOk THEN "ai" ELSE "deterministic", {},
                   {PrimaryOf(themes), SecondaryOf(themes)} \ {NoTheme}, active,
                   IF aiOk THEN "ai" ELSE "baseline")
    IN IF /\ secretOk
          /\ active # NoId
          /\ planRow.schema = PLAN3M_SCHEMA_VERSION
          /\ themes # {}
       THEN IF InsertConflict(row) THEN NoRow ELSE row
       ELSE NoRow

\* RunSessionCoachingOptions: the complete configuration without optional
\* flags, and every configuration that differs from it in one option (the
\* runner tests the options one after the other).
RunnerOptions ==
    LET plain == [origin |-> TRUE, coachingGenerateSecret |-> TRUE,
                  generationPaused |-> FALSE, backfillOnly |-> FALSE,
                  backfillStats |-> FALSE]
    IN {plain, [plain EXCEPT !.origin = FALSE],
        [plain EXCEPT !.coachingGenerateSecret = FALSE],
        [plain EXCEPT !.generationPaused = TRUE], [plain EXCEPT !.backfillOnly = TRUE],
        [plain EXCEPT !.backfillStats = TRUE]}

\* st: the snapshot /api/internal/stats/recompute leaves (0: the call fails);
\* secretOk: the configured secret is the one the route expects.
runSessionCoachingForSession(s, opts, st, secretOk, ai) ==
    LET c == SessionClient[s]
        hasRow == sessionHasSessionCoachingRow(s)
        hasPersisted == sessionHasPersistedCoaching(s, c)
        row == callGenerator(c, s, secretOk, ai)
    IN
    /\ sessions[s].coaching_attempts < MaxAttempts
    /\ IF ~opts.origin THEN
          /\ result' = RunResult(s, FALSE, "failed", FALSE, "Missing origin", FALSE)
          /\ UNCHANGED <<versions, stats, fresh, sessions>>
       ELSE IF ~opts.coachingGenerateSecret THEN
          /\ result' = RunResult(s, FALSE, "failed", FALSE, "Missing secret", FALSE)
          /\ UNCHANGED <<versions, stats, fresh, sessions>>
       ELSE IF hasRow \/ hasPersisted THEN
          /\ sessions' = bumpSessionStatus(s, "generated")
          /\ result' = RunResult(s, TRUE, "generated", TRUE, "", FALSE)
          /\ UNCHANGED <<versions, stats, fresh>>
       ELSE IF opts.generationPaused THEN
          /\ sessions' = bumpSessionStatus(s, "skipped")
          /\ result' = RunResult(s, TRUE, "skipped", FALSE, "", FALSE)
          /\ UNCHANGED <<versions, stats, fresh>>
       ELSE IF opts.backfillOnly /\ sessionHasPersistedCoaching(s, c) THEN
          /\ sessions' = bumpSessionStatus(s, "generated")
          /\ result' = RunResult(s, TRUE, "generated", TRUE, "", FALSE)
          /\ UNCHANGED <<versions, stats, fresh>>
       ELSE IF opts.backfillStats /\ st = 0 THEN
          /\ sessions' = RunnerCatch(s)
          /\ result' = RunResult(s, FALSE, "failed", FALSE, "stats recompute failed", FALSE)
          /\ UNCHANGED <<versions, stats, fresh>>
       ELSE
          /\ stats' = IF opts.backfillStats THEN [stats EXCEPT ![s] = st] ELSE stats
          /\ fresh' = IF opts.backfillStats /\ st # stats[s] THEN FreshDrop(c) ELSE fresh
          /\ IF row = NoRow THEN
                /\ sessions' = RunnerCatch(s)
                /\ result' = RunResult(s, FALSE, "failed", FALSE, "generator failed", TRUE)
                /\ UNCHANGED versions
             ELSE
                /\ Room
                /\ versions' = InsertVersion(row)
                /\ sessions' = bumpSessionStatus(s, "generated")
                /\ result' = RunResult(s, TRUE, "generated", FALSE, "", TRUE)
    /\ UNCHANGED <<ptr, summary, scoaching, pc, loc, resp, calc>>

NextRunner ==
    \/ Upstream("p1", {TRUE})
    \/ \E s \in Sessions, ai \in InternalCandidates :
          handleInternalCoachingGenerate("p1", s, TRUE, FALSE, "", ai, TRUE)
    \/ InternalInsert("p1", TRUE, TRUE)
    \/ Return("p1")
    \/ \E s \in Sessions, opts \in RunnerOptions, secretOk \in Bool :
          \E st \in IF opts.backfillStats THEN 0..MaxStat ELSE {0},
             ai \in IF secretOk THEN CreateCandidates ELSE {AiFail("error")} :
             runSessionCoachingForSession(s, opts, st, secretOk, ai)
SpecRunner == Init /\ [][NextRunner]_vars

\* ================================================================ claims
\* the generation flows that take a force flag
ForceFlows == {"plan6m_regen", "public_generate", "internal_generate"}

\* a response has reached slot p's caller
Done(p) == pc[p] = "done"

\* C1 -- Idempotence: a non-forced call of a force-taking flow, made after a
\* successful non-forced call for the same subject and thread with no change
\* of the upstream facts in between, returns cached = true and inserts no
\* row.
C1_Idempotence ==
    \A p \in Procs :
       (/\ Done(p)
        /\ resp[p].handler \in ForceFlows
        /\ ~resp[p].force
        /\ resp[p].fresh
        /\ resp[p].status # 401
        /\ resp[p].err # "Missing OPENAI_API_KEY")
       => (resp[p].cached /\ ~resp[p].inserted)

SameThread(r, q) == r.client_id = q.client_id /\ r.session_id = q.session_id

\* C2 -- Monotonic versioning: every newly persisted row carries a
\* version_index greater than every index already persisted in its thread,
\* and no two rows of a thread share a version_index.
C2_MonotonicVersioning ==
    [][ /\ \A r \in versions' \ versions :
             /\ r.version_index # NoIndex
             /\ \A q \in versions : SameThread(r, q) => q.version_index < r.version_index
        /\ \A r, q \in versions' :
             (SameThread(r, q) /\ r.version_index = q.version_index) => r = q ]_vars

InsertErrors ==
    {"insert_failed", "failed to write coaching_versions (plan3m)",
     "insert coaching_versions failed", "failed to write coaching_versions"}

\* C3 -- No writer is dropped on a version-index collision: no call ends
\* with an error for a rejected insert and its content unpersisted.
C3_NoWriterDropped ==
    \A p \in Procs :
       Done(p) => ~(resp[p].status = 500 /\ resp[p].err \in InsertErrors /\ ~resp[p].inserted)

\* C4 -- Immutability: no step of any handler changes or deletes a row of
\* coaching_versions; every row, with its content and data_hash, is in the
\* table after the step as it was before.
C4_Immutability == [][\A r \in versions : r \in versions']_vars

\* a forced regeneration has stored a second row in a thread that already
\* held one, after deleting the coaching_summary row
C4_Witness ==
    \E p \in Procs :
       /\ Done(p)
       /\ resp[p].handler = "internal_generate"
       /\ resp[p].force
       /\ resp[p].inserted
       /\ \E r \in Thread(resp[p].c, resp[p].s) : r.id # resp[p].id

\* C5 -- Pointer integrity: a non-null active_plan3m_id or active_plan6m_id
\* of a client is the id of an existing row of that client.
C5_PointerIntegrity ==
    \A c \in Clients :
       /\ ptr[c].p3 # NoId => \E r \in versions : r.id = ptr[c].p3 /\ r.client_id = c
       /\ ptr[c].p6 # NoId => \E r \in versions : r.id = ptr[c].p6 /\ r.client_id = c

\* C6 -- Append before pointer: the recompute's insert step and a stop of
\* the call before or after it leave the pointer as it was; the call goes
\* on to the pointer write only with its row stored; and the pointer write
\* sets the pointer to a row that was stored before it.
C6_AppendBeforePointer ==
    [][\A p \in Procs :
          /\ (pc[p] = "insert" /\ loc[p].handler = "plan3m_recompute" /\ pc'[p] # "insert")
                => /\ ptr' = ptr
                   /\ pc'[p] = "pointer" => loc'[p].row \in versions'
          /\ (pc[p] = "pointer" /\ pc'[p] = "idle") => ptr' = ptr
          /\ (pc[p] = "pointer" /\ pc'[p] = "done")
                => \A c \in Clients : ptr'[c].p3 # ptr[c].p3 => ptr'[c].p3 \in Ids ]_vars

\* a recompute has stored its row and then moved the pointer to it
C6_Witness ==
    \E p \in Procs :
       /\ Done(p)
       /\ resp[p].handler = "plan3m_recompute"
       /\ resp[p].inserted
       /\ ptr[resp[p].c].p3 = resp[p].id
       /\ resp[p].id \in Ids

\* themes of the plan row with the given id
ThemesOfPlan(id) == IF id \in Ids THEN RowById(id).themes ELSE {}

\* C7 -- Validation soundness: every persisted session-coaching row
\* references (primary, secondary, evidence) only themes of the plan that
\* was active when it was generated.
C7_ValidationSoundness ==
    \A r \in versions :
       r.schema = "sessioncoach_v1" => r.refs \subseteq ThemesOfPlan(r.plan)

\* the inputs of a session flow are present: a snapshot of the session and
\* an active plan3m with themes
SessionInputsPresent(c, s) ==
    /\ stats[s] # 0
    /\ \E r \in versions :
          r.id = ptr[c].p3 /\ r.schema = PLAN3M_SCHEMA_VERSION /\ r.themes # {}

\* C8 -- Fallback correctness: a call whose inputs are present and whose
\* collaborator is disabled or fails ends with status 200, a stored row and
\* generated_by = deterministic.
C8_FallbackCorrectness ==
    \A p \in Procs :
       (/\ Done(p)
        /\ resp[p].ai \in {"disabled", "error"}
        /\ SessionInputsPresent(resp[p].c, resp[p].s))
       => (resp[p].status = 200 /\ resp[p].inserted /\ resp[p].generated_by = "deterministic")

RejectionCauses == {"error:schema_validation", "error:theme_not_in_plan"}

\* C9 -- Schema rejection is absorbed: a call whose collaborator output is
\* rejected by validation ends with status 200 and generated_by =
\* deterministic, and its telemetry row names the rejection cause.
C9_RejectionAbsorbed ==
    \A p \in Procs :
       (Done(p) /\ resp[p].ai = "rejected")
       => (/\ resp[p].status = 200
           /\ resp[p].generated_by = "deterministic"
           /\ resp[p].tel \in RejectionCauses)

\* C10 -- Force bypasses the cache: a forced call whose hash matches the
\* existing active or latest version does not return cached; it stores a
\* new row.
C10_ForceBypassesCache ==
    \A p \in Procs :
       (/\ Done(p)
        /\ resp[p].handler \in ForceFlows
        /\ resp[p].force
        /\ resp[p].match
        /\ resp[p].status # 401)
       => (~resp[p].cached /\ resp[p].inserted)

\* C11 -- Reason classification: the row a plan6m regen persists on a miss
\* carries reason = initial exactly when the client had no active plan6m
\* pointer before the call, manual_regen exactly when a pointer existed and
\* the call was forced, and data_change otherwise; every row persisted by a
\* force-taking flow carries one of these three reasons.
C11_ReasonClassification ==
    [][\A p \in Procs :
          (pc[p] = "insert" /\ loc[p].handler \in ForceFlows /\ pc'[p] = "done")
             => \A r \in versions' \ versions :
                   /\ r.reason \in {"initial", "manual_regen", "data_change"}
                   /\ loc[p].handler = "plan6m_regen"
                         => r.reason = IF loc[p].prev = NoId THEN "initial"
                                       ELSE IF loc[p].force THEN "manual_regen"
                                       ELSE "data_change" ]_vars

\* C12 -- A cached hit writes nothing: a non-forced call that answers
\* cached because the active pointer (plan6m), the session_coaching row
\* (public) or the latest version (internal) carries the computed hash
\* leaves coaching_versions, client_active_plans, coaching_summary and
\* session_coaching as they were.
C12_CachedHitWritesNothing ==
    [][\A p \in Procs :
          (/\ pc[p] = "idle"
           /\ pc'[p] = "done"
           /\ resp'[p].cached
           /\ ~resp'[p].force
           /\ \/ resp'[p].handler \in {"public_generate", "internal_generate"}
              \/ /\ resp'[p].handler = "plan6m_regen"
                 /\ resp'[p].id = ptr[resp'[p].c].p6)
          => UNCHANGED <<versions, ptr, summary, scoaching>> ]_vars

\* C13 -- The plan6m regen never activates: no step of a
\* handleAdminPlan6mRegen call (hit, reuse, miss, error) changes the
\* client's active_plan6m_id.
C13_Plan6mRegenNeverActivates ==
    [][\A p \in Procs :
          (/\ pc[p] # "done"
           /\ \/ pc'[p] = "done" /\ resp'[p].handler = "plan6m_regen"
              \/ pc'[p] = "insert" /\ loc'[p].handler = "plan6m_regen")
          => \A c \in Clients : ptr'[c].p6 = ptr[c].p6 ]_vars

\* C14 -- Plan3m recompute is append-only and auto-activating: the insert
\* step of a recompute adds exactly one row, in the plan3m thread of the
\* client, and no other step of the call adds or removes a row; a call that
\* answers ok answers with the id of the row it inserted, and at that
\* moment active_plan3m_id of the client is that id.
C14_RecomputeAppendsAndActivates ==
    [][\A p \in Procs :
          /\ (pc[p] = "insert" /\ loc[p].handler = "plan3m_recompute" /\ pc'[p] = "pointer")
                => /\ versions \subseteq versions'
                   /\ Cardinality(versions' \ versions) = 1
                   /\ \A r \in versions' \ versions :
                         /\ r = loc'[p].row
                         /\ r.client_id = loc[p].row.client_id
                         /\ r.session_id = PLAN3M_ANCHOR_SESSION_ID
                         /\ r.schema = PLAN3M_SCHEMA_VERSION
          /\ (pc'[p] = "done" /\ pc[p] # "done" /\ resp'[p].handler = "plan3m_recompute")
                => /\ versions' = versions
                   /\ resp'[p].status = 200
                         => /\ pc[p] = "pointer"
                            /\ resp'[p].id = loc[p].row.id
                            /\ loc[p].row \in versions'
                            /\ ptr'[resp'[p].c].p3 = resp'[p].id ]_vars

\* a recompute that replaced a valid previous plan has answered ok
C14_Witness ==
    \E p \in Procs :
       /\ Done(p)
       /\ resp[p].handler = "plan3m_recompute"
       /\ resp[p].status = 200
       /\ resp[p].id \in Ids
       /\ RowById(resp[p].id).plan # NoId
       /\ ptr[resp[p].c].p3 = resp[p].id

\* C15 -- Bootstrap instead of failure: an authorised recompute for a
\* client without a usable pointer (no client_active_plans row, a NULL
\* active_plan3m_id, or an id with no row) is not rejected; the row it
\* appends has no previous plan (index 1 when the thread is empty), and its
\* pointer step makes the pointer reference that row.
C15_BootstrapInsteadOfFailure ==
    [][\A p \in Procs : \A c \in Clients :
          LET noPointer == ~ptr[c].row \/ ptr[c].p3 = NoId \/ ptr[c].p3 \notin Ids IN
          /\ (/\ pc[p] = "idle" /\ pc'[p] = "done" /\ noPointer
              /\ resp'[p].handler = "plan3m_recompute" /\ resp'[p].c = c
              /\ resp'[p].status # 401 /\ resp'[p].ai # "error")
                => resp'[p].status = 200
          /\ (/\ pc[p] = "idle" /\ pc'[p] = "insert" /\ noPointer
              /\ loc'[p].handler = "plan3m_recompute" /\ loc'[p].row.client_id = c)
                => /\ loc'[p].row.plan = NoId
                   /\ Thread(c, PLAN3M_ANCHOR_SESSION_ID) = {} => loc'[p].row.version_index = 1
          /\ (/\ pc[p] = "pointer" /\ pc'[p] = "done"
              /\ loc[p].handler = "plan3m_recompute" /\ loc[p].row.client_id = c
              /\ loc[p].row.plan = NoId)
                => ptr'[c].p3 = loc[p].row.id ]_vars

\* C16 -- Validation is all-or-nothing: no row labelled as generated by
\* the collaborator holds content obtained from a candidate by dropping,
\* replacing or defaulting its invalid parts.
C16_ValidationAllOrNothing ==
    \A r \in versions :
       r.generated_by \in {"ai", "openai", "admin_plan6m_regen",
                           "coaching_generate_sessioncoach_v1"}
          => r.display # "ai_coerced"

\* C17 -- Every generation call returns even when the collaborator never
\* answers: no call waits on a collaborator request that has no timeout of
\* its own, and a call whose collaborator never answered ends with status
\* 200 and a stored baseline.
C17_CollaboratorCallBounded ==
    \A p \in Procs :
       /\ pc[p] # "waiting"
       /\ (Done(p) /\ resp[p].ai = "hang")
             => /\ resp[p].status = 200
                /\ resp[p].inserted
                /\ resp[p].generated_by \in {"deterministic", "system"}

\* C18 -- Missing inputs block generation: a generation call made while
\* the subject has no statistics snapshot ends with an error response,
\* without calling the collaborator, with no row inserted and no pointer
\* changed.
C18_MissingInputsBlock ==
    [][\A p \in Procs :
          (/\ pc[p] # "done"
           /\ pc'[p] = "done"
           /\ resp'[p].handler \in {"plan6m_regen", "plan3m_recompute", "sessioncoach_create",
                                     "internal_ai_generate", "public_generate",
                                     "internal_generate"}
           /\ resp'[p].status # 401
           /\ IF resp'[p].s = NIL_UUID
                 THEN \A s \in SessionsOf(resp'[p].c) : stats[s] = 0
                 ELSE stats[resp'[p].s] = 0)
          => /\ pc[p] = "idle"
             /\ resp'[p].status # 200
             /\ ~resp'[p].inserted
             /\ resp'[p].ai \in {"", "disabled"}
             /\ UNCHANGED <<versions, ptr>> ]_vars

\* C19 -- Unauthorized calls do no work: every step that is a call of a
\* generation or activation handler without the expected secret or admin
\* session answers 401 or 403, has not called the collaborator, and leaves
\* coaching_versions, client_active_plans and every other table as they
\* were.
C19_UnauthorizedDoNoWork ==
    [][\A p \in Procs :
          LET rejected ==
                 /\ pc'[p] = "done"
                 /\ resp'[p].status \in {401, 403}
                 /\ resp'[p].ai = ""
                 /\ ~resp'[p].inserted
                 /\ UNCHANGED <<versions, ptr, stats, summary, scoaching>>
              h == IF pc'[p] = "done" THEN resp'[p].handler ELSE loc'[p].handler
              f == IF pc'[p] = "done" THEN resp'[p].force ELSE loc'[p].force
          IN
          pc[p] = "idle" =>
          /\ h = "activate" =>
                \A c \in Clients, v \in Ids \cup {MissingId} :
                   ActivatePlan3m(p, c, FALSE, v) => rejected
          /\ h = "plan6m_regen" =>
                \A c \in Clients, force \in {f}, ai \in AiFailures \cup Plan6mCandidates :
                   handleAdminPlan6mRegen(p, c, FALSE, force, ai, TRUE) => rejected
          /\ h = "plan3m_recompute" =>
                \A c \in Clients, reasonIn \in ReasonsIn, now \in 1..MaxClock,
                   ai \in AiFailures \cup Plan3mCandidates :
                   handlePlan3mRecompute(p, c, FALSE, reasonIn, now, ai) => rejected
          /\ h = "sessioncoach_create" =>
                \A c \in Clients, s \in Sessions, reasonIn \in ReasonsIn,
                   ai \in AiFailures \cup CreateCandidates :
                   handleSessionCoachCreate(p, c, s, FALSE, reasonIn, ai) => rejected
          /\ h = "internal_ai_generate" =>
                \A s \in Sessions, cIn \in {""} \cup Clients,
                   ai \in AiFailures \cup AiGenCandidates :
                   handleInternalCoachingAiGenerate(p, s, cIn, FALSE, ai) => rejected
          /\ h = "public_generate" =>
                \A s \in Sessions, force \in {f}, ai \in AiFailures \cup PublicCandidates :
                   handlePublicCoachingGenerate(p, s, FALSE, force, ai, TRUE) => rejected
          /\ h = "internal_generate" =>
                \A s \in Sessions, force \in {f}, reasonIn \in ReasonsIn,
                   ai \in AiFailures \cup InternalCandidates :
                   handleInternalCoachingGenerate(p, s, FALSE, force, reasonIn, ai, TRUE)
                      => rejected ]_vars

\* an unauthorised plan6m regen has been answered 401 while the tables
\* hold a version and a pointer
C19_Witness ==
    \E p \in Procs :
       /\ Done(p)
       /\ resp[p].handler = "plan6m_regen"
       /\ resp[p].status = 401
       /\ versions # {}
       /\ ptr[resp[p].c].row

\* what a call leaves for its caller and in the tables: everything but the
\* coaching_telemetry row
Visible ==
    <<versions, ptr, stats, summary, scoaching, pc, loc, fresh, aside,
      [q \in Procs |-> [resp[q] EXCEPT !.tel = ""]]>>

\* C20 -- Telemetry is non-interfering: for every step of a generation call
\* taken while its telemetry insert fails (the step leaves no telemetry
\* row), the same step with the telemetry insert succeeding is possible
\* from the same state and leaves the same response, version store,
\* pointers and tables.
C20_TelemetryNonInterfering ==
    [][\A p \in Procs :
          LET h == IF pc'[p] = "done" THEN resp'[p].handler ELSE loc'[p].handler
              f == IF pc'[p] = "done" THEN resp'[p].force ELSE loc'[p].force
          IN
          (pc[p] # pc'[p] /\ pc[p] # "done" /\ (pc'[p] = "done" => resp'[p].tel = "")) =>
          \A v \in {Visible'} :
          /\ (h = "plan6m_regen" /\ pc[p] = "idle") =>
                \A c \in Clients, force \in {f}, ai \in AiFailures \cup Plan6mCandidates :
                   handleAdminPlan6mRegen(p, c, TRUE, force, ai, FALSE)
                      => ENABLED (handleAdminPlan6mRegen(p, c, TRUE, force, ai, TRUE)
                                  /\ Visible' = v)
          /\ (h = "plan6m_regen" /\ pc[p] = "insert") =>
                (Regen6mInsert(p, FALSE) => ENABLED (Regen6mInsert(p, TRUE) /\ Visible' = v))
          /\ (h = "public_generate" /\ pc[p] = "idle") =>
                \A s \in Sessions, force \in {f}, ai \in AiFailures \cup PublicCandidates :
                   handlePublicCoachingGenerate(p, s, TRUE, force, ai, FALSE)
                      => ENABLED (handlePublicCoachingGenerate(p, s, TRUE, force, ai, TRUE)
                                  /\ Visible' = v)
          /\ (h = "public_generate" /\ pc[p] = "insert") =>
                (PublicInsert(p, FALSE) => ENABLED (PublicInsert(p, TRUE) /\ Visible' = v))
          /\ (h = "internal_generate" /\ pc[p] = "idle") =>
                \A s \in Sessions, force \in {f}, reasonIn \in ReasonsIn,
                   ai \in AiFailures \cup InternalCandidates :
                   handleInternalCoachingGenerate(p, s, TRUE, force, reasonIn, ai, FALSE)
                      => ENABLED (handleInternalCoachingGenerate(p, s, TRUE, force, reasonIn,
                                                                 ai, TRUE)
                                  /\ Visible' = v)
          /\ (h = "internal_generate" /\ pc[p] = "insert") =>
                \A nullable \in Bool :
                   InternalInsert(p, nullable, FALSE)
                      => ENABLED (InternalInsert(p, nullable, TRUE) /\ Visible' = v) ]_vars

\* a plan6m regen has stored its row and answered ok while its telemetry
\* insert failed
C20_Witness ==
    \E p \in Procs :
       /\ Done(p)
       /\ resp[p].handler = "plan6m_regen"
       /\ resp[p].inserted
       /\ resp[p].status = 200
       /\ resp[p].tel = ""

\* C22 -- Closed value sets: every persisted row has a reason among initial,
\* data_change and manual_regen, and a generated_by that names the
\* deterministic baseline or the external collaborator; no row carries a
\* caller-supplied reason or a route name.
C22_ClosedValueSets ==
    \A r \in versions :
       /\ r.reason \in {"initial", "data_change", "manual_regen"}
       /\ r.generated_by \in {"deterministic", "system", "ai", "openai"}

\* the two flows that store their rows under (client_id, nil UUID)
PlanThreadFlows == {"plan6m_regen", "plan3m_recompute"}

\* C28 -- The plan3m recompute and the plan6m regen never collide on an
\* index: whenever one of the two flows, called one after the other, is
\* about to insert its row, no stored row of (client_id, nil UUID) carries
\* the version_index the flow has allocated.
C28_NoCrossFlowIndexCollision ==
    \A p \in Procs :
       (pc[p] = "insert" /\ loc[p].handler \in PlanThreadFlows)
          => \A r \in Thread(loc[p].row.client_id, NIL_UUID) :
                r.version_index # loc[p].row.version_index

\* C29 -- The two pointers of a client are independent: a step that changes
\* active_plan6m_id of a client leaves its active_plan3m_id as it was, a
\* step that changes active_plan3m_id leaves active_plan6m_id as it was,
\* and a step that changes the row of one client changes the row of no
\* other client.
C29_PointersIndependent ==
    [][\A c \in PtrClients :
          /\ ptr'[c].p6 # ptr[c].p6 => ptr'[c].p3 = ptr[c].p3
          /\ ptr'[c].p3 # ptr[c].p3 => ptr'[c].p6 = ptr[c].p6
          /\ ptr'[c] # ptr[c] => \A d \in PtrClients \ {c} : ptr'[d] = ptr[d] ]_vars

\* an activation has replaced active_plan3m_id of a client whose
\* active_plan6m_id is set, while the other client has a pointer row too
C29_Witness ==
    \E p \in Procs :
       /\ Done(p)
       /\ resp[p].handler = "activate"
       /\ resp[p].status = 200
       /\ ptr[resp[p].c].p6 # NoId
       /\ ptr[resp[p].c].p3 = resp[p].id
       /\ \E d \in PtrClients \ {resp[p].c} : ptr[d].p3 # NoId

\* C26 -- The data hash depends on the stored facts only: whenever a
\* recompute call computes its hash, the call with any other request reason,
\* made in the same state at the same time, computes the same hash.
C26_HashFromStoredFacts ==
    [][\A p \in Procs :
          (pc[p] = "idle" /\ pc'[p] = "insert" /\ loc'[p].handler = "plan3m_recompute") =>
          \A h \in {loc'[p].row.data_hash} :
             \A c \in Clients, now \in 1..MaxClock, ai \in Plan3mCandidates,
                r1 \in RecomputeReasons, r2 \in RecomputeReasons :
                handlePlan3mRecompute(p, c, TRUE, r1, now, ai)
                   => ENABLED (/\ handlePlan3mRecompute(p, c, TRUE, r2, now, ai)
                               /\ loc'[p].row.data_hash = h) ]_vars

\* the tables, the locals and the responses without the request's force
\* flag
ForceBlind ==
    <<versions, ptr, stats, summary, scoaching, pc,
      [q \in Procs |-> [loc[q] EXCEPT !.force = FALSE]],
      [q \in Procs |-> [resp[q] EXCEPT !.force = FALSE]]>>

\* C27 -- The internal coaching route never honors force: for every first
\* step of a handleInternalCoachingGenerate call, the same call with the
\* other value of force is possible from the same state and leaves the same
\* response, the same row to insert with the same reason, and the same
\* coaching_summary and session_coaching.
C27_InternalIgnoresForce ==
    [][\A p \in Procs :
          LET h == IF pc'[p] = "done" THEN resp'[p].handler ELSE loc'[p].handler IN
          (pc[p] = "idle" /\ pc'[p] # "idle" /\ h = "internal_generate") =>
          \A v \in {ForceBlind'} :
             \A s \in Sessions, f \in Bool, reasonIn \in ReasonsIn,
                ai \in AiFailures \cup InternalCandidates :
                handleInternalCoachingGenerate(p, s, TRUE, f, reasonIn, ai, TRUE)
                   => ENABLED (/\ handleInternalCoachingGenerate(p, s, TRUE, ~f, reasonIn,
                                                                 ai, TRUE)
                               /\ ForceBlind' = v) ]_vars

\* C21 -- Hash determinism: two input snapshots with the same logical content
\* that differ only in the order of object keys, at any depth, get the same
\* hash in every flow that stores a data_hash or inputs_hash, the plan3m
\* recompute included.
C21_HashDeterminism ==
    calc.fn = "hash" => calc.ha = calc.hb

\* C23 -- The deterministic baseline is always valid: for every set of plan
\* themes (the empty one included) and every stats_json (an empty summary or
\* empty highlights included), the baseline a session-coaching flow builds has a
\* non-empty session_summary, at least one what_stood_out entry, a plan_status
\* in {aligned, neutral, review_needed} and a primary theme among the allowed
\* themes.
C23_BaselineValid ==
    calc.fn = "baseline" => Accepts(calc.out, calc.themes)

====
